---- MODULE Spec2Model ----
(***************************************************************************)
(* Klondike Solitaire rules engine (sim/games/klondike.py, sim/deck.py,    *)
(* sim/card.py) as a state machine.                                        *)
(*                                                                         *)
(* Python lists are sequences with Python index 0 at TLA+ index 1, so the  *)
(* "top" of a Deck, of Pile.shown and of Foundation.cards is element 1.    *)
(* Tableau piles keep the source's 0-based pile indices.                   *)
(*                                                                         *)
(* A raised exception is a value: every operation that can raise returns a *)
(* record with an err field ("none", "ValueError", "RulesError",           *)
(* "AttributeError") next to whatever the call had already mutated when it *)
(* raised.                                                                 *)
(*                                                                         *)
(* Deck objects are kept in an object store (decks) and referred to by     *)
(* identity, because Game.draw_stock rebinds self.stock to the waste Deck  *)
(* and Game.state / Game.undo clone Decks; piles and foundations are only  *)
(* ever held through deep clones and are kept by value.                    *)
(***************************************************************************)
EXTENDS Integers, Sequences, FiniteSets, TLC

\* ---------------------------------------------------------------- bounds
\* Largest number of successful take_turn and undo calls in one behaviour.
MaxOps == 3

\* Largest stack size a MoveTableauStack input names.
MaxCount == 2

\* ------------------------------------------------------------- card model
CLUBS == 1
DIAMONDS == 2
HEARTS == 3
SPADES == 4
Suit == {CLUBS, DIAMONDS, HEARTS, SPADES}

ACE == 1
KING == 13
Rank == ACE..KING

\* Python's None, shaped like a card so that it can stand where a card can.
None == [rank |-> 0, suit |-> 0]

\* Card.__init__ gone wrong: any int is taken for a rank.
CardInit_any_rank(rank, suit) ==
    IF suit \in Suit
    THEN [err |-> "none", card |-> [rank |-> rank, suit |-> suit]]
    ELSE [err |-> "ValueError", card |-> None]

\* Card.__init__ with an int (or IntEnum) rank and suit: Rank(rank) and
\* Suit(suit) raise ValueError for a value that is not a member.
CardInit(rank, suit) ==
    IF rank \in Rank /\ suit \in Suit
    THEN [err |-> "none", card |-> [rank |-> rank, suit |-> suit]]
    ELSE [err |-> "ValueError", card |-> None]

\* The rank argument of Card(rank, suit): a member of Rank, or a plain int
\* as arithmetic on a Rank gives (Rank.ACE + 1 is the int 2).
RankArg(r) == [kind |-> "Rank", value |-> r]
IntArg(n) == [kind |-> "int", value |-> n]

\* Card(rank, suit) for a suit of Suit: a Rank is kept as it is, an int goes
\* through Rank(rank).
Card_new(rank, suit) ==
    IF rank.kind = "Rank"
    THEN [err |-> "none", card |-> [rank |-> rank.value, suit |-> suit]]
    ELSE CardInit(rank.value, suit)

\* A card literal of the model (Card.parse of a two-letter code).
C(rank, suit) == [rank |-> rank, suit |-> suit]

suit_black(s) == s \in {CLUBS, SPADES}
suit_color(s) == IF suit_black(s) THEN "black" ELSE "red"
color(c) == suit_color(c.suit)
is_black(c) == suit_black(c.suit)

\* Card.__eq__(self, other) for an other that is a Card or None.
Card_eq(self, other) ==
    IF other = None THEN FALSE
    ELSE self.suit = other.suit /\ self.rank = other.rank

\* Card.__eq__(self, other) for an other that is a Rank: not a Card.
Card_eq_rank(self, other_rank) == FALSE

\* a == b and a != b where either side may be None (as in card != expected).
PyEq(a, b) ==
    IF a = None THEN b = None
    ELSE Card_eq(a, b)

\* c in cards, for a Python list of cards and a card or None.
CardIn(c, cards) == \E i \in 1..Len(cards) : PyEq(cards[i], c)

\* The smaller of two numbers (min(draw_count, len(stock))).
Smaller(a, b) == IF a < b THEN a ELSE b

\* ------------------------------------------------------------------ Deck
Reverse(s) == [i \in 1..Len(s) |-> s[Len(s) + 1 - i]]

SubSeqFrom(s, n) == SubSeq(s, n, Len(s))

\* Deck.draw: removes the first list element equal to cards[0], which is
\* cards[0] itself.
Deck_draw(cards) ==
    IF Len(cards) < 1
    THEN [err |-> "ValueError", cards |-> cards, card |-> None]
    ELSE [err |-> "none", cards |-> Tail(cards), card |-> cards[1]]

\* Deck.draw_n(n) with or_fewer=False.
Deck_draw_n(cards, n) ==
    IF n > Len(cards)
    THEN [err |-> "ValueError", cards |-> cards, drawn |-> <<>>]
    ELSE [err |-> "none", cards |-> SubSeqFrom(cards, n + 1),
          drawn |-> SubSeq(cards, 1, n)]

\* Deck.insert(0, card).
Deck_insert0(cards, c) == <<c>> \o cards

\* The methods and properties class Deck defines.
DeckAttrs ==
    {"shuffle", "draw", "top", "bottom", "empty", "draw_n", "top_n", "clone",
     "append", "count", "index", "extend", "insert", "pop", "remove",
     "reverse", "sort"}

\* Deck.__init__ with cards=None: [Card(s, r) for r in Rank for s in Suit],
\* which hands the suit to Card's rank parameter and the rank to its suit
\* parameter.
Deck_default ==
    IF \E r \in Rank, s \in Suit : CardInit(s, r).err # "none"
    THEN [err |-> "ValueError", cards |-> <<>>]
    ELSE [err |-> "none",
          cards |-> [i \in 1..(Cardinality(Rank) * Cardinality(Suit)) |->
                        CardInit(((i - 1) % Cardinality(Suit)) + 1,
                                 ((i - 1) \div Cardinality(Suit)) + 1).card]]

\* ------------------------------------------------------------ Foundation
\* Foundation.needs, for the card list and the suit of one foundation.
Foundation_needs(cards, fsuit) ==
    IF Len(cards) = 0 THEN CardInit(ACE, fsuit)
    ELSE IF Len(cards) = KING THEN [err |-> "none", card |-> None]
    ELSE CardInit(cards[1].rank + 1, fsuit)

\* Foundation.add gone wrong: only the suit is checked.
Foundation_add_any_rank(cards, fsuit, card) ==
    IF card.suit # fsuit
    THEN [err |-> "ValueError", cards |-> cards]
    ELSE [err |-> "none", cards |-> <<card>> \o cards]

\* Foundation.add.
Foundation_add(cards, fsuit, card) ==
    IF card.suit # fsuit
    THEN [err |-> "ValueError", cards |-> cards]
    ELSE IF Len(cards) > 0 /\ card.rank # cards[1].rank + 1
    THEN [err |-> "ValueError", cards |-> cards]
    ELSE IF Len(cards) = 0 /\ card.rank # ACE
    THEN [err |-> "ValueError", cards |-> cards]
    ELSE [err |-> "none", cards |-> <<card>> \o cards]

\* Foundation.remove.
Foundation_remove(cards) ==
    IF Len(cards) = 0
    THEN [err |-> "ValueError", cards |-> cards, card |-> None]
    ELSE [err |-> "none", cards |-> Tail(cards), card |-> cards[1]]

\* Foundation.top.
Foundation_top(cards) == IF Len(cards) = 0 THEN None ELSE cards[1]

\* ------------------------------------------------------------------ Pile
\* Pile.__init__ gone wrong: every card is turned face up.
Pile_init_shows_all(cards) == [shown |-> cards, hidden |-> <<>>]

\* Pile.__init__: the first card is shown, the rest are hidden.
Pile_init(cards) ==
    IF Len(cards) > 0
    THEN [shown |-> <<cards[1]>>, hidden |-> Tail(cards)]
    ELSE [shown |-> <<>>, hidden |-> <<>>]

Pile_empty(p) == Len(p.shown) = 0 /\ Len(p.hidden) = 0

\* Pile.top: returns the top card and turns the first hidden card over when
\* nothing is shown.
Pile_top(p) ==
    IF Len(p.shown) = 0
    THEN IF Len(p.hidden) > 0
         THEN [pile |-> [shown |-> <<p.hidden[1]>>, hidden |-> Tail(p.hidden)],
               card |-> p.hidden[1]]
         ELSE [pile |-> p, card |-> None]
    ELSE [pile |-> p, card |-> p.shown[1]]

\* Pile.take gone wrong: no hidden card is turned over.
Pile_take_no_reveal(p, count) ==
    IF count < 1 \/ count > Len(p.shown)
    THEN [err |-> "ValueError", pile |-> p, cards |-> <<>>]
    ELSE [err |-> "none",
          pile |-> [p EXCEPT !.shown = SubSeqFrom(p.shown, count + 1)],
          cards |-> SubSeq(p.shown, 1, count)]

\* Pile.take.
Pile_take(p, count) ==
    IF count < 1 \/ count > Len(p.shown)
    THEN [err |-> "ValueError", pile |-> p, cards |-> <<>>]
    ELSE LET rest == SubSeqFrom(p.shown, count + 1)
             left == IF Len(rest) = 0 /\ Len(p.hidden) > 0
                     THEN [shown |-> <<p.hidden[1]>>, hidden |-> Tail(p.hidden)]
                     ELSE [shown |-> rest, hidden |-> p.hidden]
         IN [err |-> "none", pile |-> left, cards |-> SubSeq(p.shown, 1, count)]

\* Pile.needs: the test for an Ace compares the top Card with a Rank, so it
\* is the else branch that builds the cards one rank below the top.
Pile_needs(p) ==
    IF Len(p.shown) = 0
    THEN [err |-> "none",
          cards |-> <<C(KING, CLUBS), C(KING, DIAMONDS), C(KING, HEARTS), C(KING, SPADES)>>]
    ELSE IF Card_eq_rank(p.shown[1], ACE)
    THEN [err |-> "none", cards |-> <<>>]
    ELSE LET t == Pile_top(p).card
             a == IF is_black(t) THEN CardInit(t.rank - 1, DIAMONDS)
                                 ELSE CardInit(t.rank - 1, CLUBS)
             b == IF is_black(t) THEN CardInit(t.rank - 1, HEARTS)
                                 ELSE CardInit(t.rank - 1, SPADES)
         IN IF a.err # "none" THEN [err |-> a.err, cards |-> <<>>]
            ELSE IF b.err # "none" THEN [err |-> b.err, cards |-> <<>>]
            ELSE [err |-> "none", cards |-> <<a.card, b.card>>]

\* The check of Pile.give on the given cards themselves: from the bottom
\* card upwards, each card differs in colour from the card below it and is
\* one rank lower.
ValidStack(cards) ==
    \A i \in 1..(Len(cards) - 1) :
        ~(color(cards[i]) = color(cards[i + 1])
          \/ cards[i].rank # cards[i + 1].rank - 1)

\* Pile.give gone wrong: the given cards go underneath the shown cards.
Pile_give_underneath(p, cards) ==
    LET bot_given == cards[Len(cards)]
    IN IF ~ValidStack(cards)
       THEN [err |-> "ValueError", pile |-> p]
       ELSE IF ~Pile_empty(p)
       THEN LET tp == Pile_top(p)
            IN IF color(bot_given) = color(tp.card)
                  \/ bot_given.rank # tp.card.rank - 1
               THEN [err |-> "ValueError", pile |-> tp.pile]
               ELSE [err |-> "none",
                     pile |-> [tp.pile EXCEPT !.shown = @ \o cards]]
       ELSE [err |-> "none", pile |-> [p EXCEPT !.shown = cards \o @]]

\* Pile.give, for at least one card.  An empty pile takes any valid stack.
Pile_give(p, cards) ==
    LET bot_given == cards[Len(cards)]
    IN IF ~ValidStack(cards)
       THEN [err |-> "ValueError", pile |-> p]
       ELSE IF ~Pile_empty(p)
       THEN LET tp == Pile_top(p)
            IN IF color(bot_given) = color(tp.card)
                  \/ bot_given.rank # tp.card.rank - 1
               THEN [err |-> "ValueError", pile |-> tp.pile]
               ELSE [err |-> "none",
                     pile |-> [tp.pile EXCEPT !.shown = cards \o @]]
       ELSE [err |-> "none", pile |-> [p EXCEPT !.shown = cards \o @]]

\* ---------------------------------------------------- locations, actions
NoLocation == [type |-> "NONE", pile |-> 0, suit |-> 0]
TableauPosition(pile) == [type |-> "TABLEAU", pile |-> pile, suit |-> 0]
FoundationPosition(fsuit) == [type |-> "FOUNDATION", pile |-> 0, suit |-> fsuit]
WastePosition == [type |-> "WASTE", pile |-> 0, suit |-> 0]

NoAction == [type |-> "NONE", source |-> NoLocation, dest |-> NoLocation, count |-> 0]

DrawAction == [type |-> "DRAW", source |-> NoLocation, dest |-> NoLocation, count |-> 0]

\* MoveTableauStackAction.__init__.
MoveTableauStackAction(source_pile, dest_pile, count) ==
    IF source_pile = dest_pile \/ source_pile < 0 \/ dest_pile < 0 \/ count < 1
    THEN [err |-> "ValueError", action |-> NoAction]
    ELSE [err |-> "none",
          action |-> [type |-> "MOVE_TABLEAU_STACK",
                      source |-> TableauPosition(source_pile),
                      dest |-> TableauPosition(dest_pile),
                      count |-> count]]

\* MoveOneAction.__init__ gone wrong: a move to the waste is let through.
MoveOneAction_to_waste(source, dest) ==
    IF dest.type = source.type
    THEN [err |-> "ValueError", action |-> NoAction]
    ELSE [err |-> "none",
          action |-> [type |-> "MOVE_ONE", source |-> source, dest |-> dest,
                      count |-> 0]]

\* MoveOneAction.__init__.
MoveOneAction(source, dest) ==
    IF dest.type = source.type \/ dest.type = "WASTE"
    THEN [err |-> "ValueError", action |-> NoAction]
    ELSE [err |-> "none",
          action |-> [type |-> "MOVE_ONE", source |-> source, dest |-> dest,
                      count |-> 0]]

\* ------------------------------------------------------------------ Game
\* Identities of Deck objects: the live stock and waste and two Decks per
\* snapshot in history (at most MaxOps + 2 snapshots at any moment).
DeckIds == 1..(2 * MaxOps + 6)

Min(S) == CHOOSE x \in S : \A y \in S : x <= y

\* Python evaluates the right-hand side of an assignment once: Bind(e, F) is
\* F applied to the value of e.
Bind(e, F(_)) == CHOOSE r \in {F(x) : x \in {e}} : TRUE

\* The Deck objects a game still refers to: its own and its snapshots'.
HistoryIds(history) ==
    {history[i].stock : i \in 1..Len(history)}
        \cup {history[i].waste : i \in 1..Len(history)}

UsedIds(g) == {g.stock, g.waste} \cup HistoryIds(g.history)

\* Decks nobody refers to any more are dropped from the object store.
Collect(g) ==
    [g EXCEPT !.decks = [d \in DeckIds |->
                            IF d \in UsedIds(g) THEN g.decks[d] ELSE <<>>]]

num_piles_of(tableau) == Cardinality(DOMAIN tableau)

\* Deck.clone gone wrong: hands back the Deck itself instead of a copy.
Deck_clone_same(decks, d, new) == [id |-> d, decks |-> decks]

\* Deck.clone on the Deck d: a new Deck object (new is an identity not in
\* use) that holds a copy of the card list.
Deck_clone(decks, d, new) ==
    [id |-> new, decks |-> [decks EXCEPT ![new] = decks[d]]]

\* Game.state: a State built from clones of the live containers.
Game_state(g) ==
    LET new_stock == Min(DeckIds \ UsedIds(g))
        new_waste == Min(DeckIds \ (UsedIds(g) \cup {new_stock}))
        stock_clone == Deck_clone(g.decks, g.stock, new_stock)
        waste_clone == Deck_clone(stock_clone.decks, g.waste, new_waste)
    IN [state |-> [tableau |-> g.tableau,
                   foundations |-> g.foundations,
                   stock |-> stock_clone.id,
                   waste |-> waste_clone.id,
                   current_stock_pass |-> g.current_stock_pass,
                   pass_limit |-> g.stock_pass_limit,
                   draw_count |-> g.draw_count],
        decks |-> waste_clone.decks]

\* self.history.append(self.state)
AppendState(g) ==
    Bind(g, LAMBDA h :
        Bind(Game_state(h), LAMBDA st :
            [h EXCEPT !.decks = st.decks, !.history = Append(@, st.state)]))

\* The tableau loop of Game.__init__, from pile pile_idx on: each pile is
\* Pile(reversed(stock.draw_n(pile_idx + 1))).
RECURSIVE Deal(_, _, _)
Deal(cards, pile_idx, num_piles) ==
    IF pile_idx >= num_piles
    THEN [err |-> "none", piles |-> <<>>, stock |-> cards]
    ELSE LET d == Deck_draw_n(cards, pile_idx + 1)
         IN IF d.err # "none"
            THEN [err |-> d.err, piles |-> <<>>, stock |-> cards]
            ELSE LET rest == Deal(d.cards, pile_idx + 1, num_piles)
                 IN [err |-> rest.err,
                     piles |-> <<Pile_init(Reverse(d.drawn))>> \o rest.piles,
                     stock |-> rest.stock]

\* Game.__init__ with a given deck.
Game_init(deck, draw_count, stock_pass_limit, num_piles) ==
    LET dealt == Deal(deck, 0, num_piles)
        g == [tableau |-> [i \in 0..(num_piles - 1) |-> dealt.piles[i + 1]],
              foundations |-> [s \in Suit |-> <<>>],
              stock |-> 1,
              waste |-> 2,
              decks |-> [d \in DeckIds |-> IF d = 1 THEN dealt.stock ELSE <<>>],
              current_stock_pass |-> 1,
              history |-> <<>>,
              draw_count |-> draw_count,
              stock_pass_limit |-> stock_pass_limit]
    IN AppendState(g)

\* Game(draw_count, stock_pass_limit, deck, num_piles) as a call that can
\* raise: Deck.draw_n raises ValueError when the deck runs out in the deal.
Game_new(deck, draw_count, stock_pass_limit, num_piles) ==
    IF Deal(deck, 0, num_piles).err # "none"
    THEN [err |-> Deal(deck, 0, num_piles).err, built |-> FALSE]
    ELSE [err |-> "none", built |-> TRUE]

\* The draw loop of Game.draw_stock, n iterations left to run:
\* c = self.stock.draw(); self.waste.insert(0, c), on the Deck objects that
\* self.stock and self.waste name (which may be one object).
RECURSIVE DrawLoop(_, _, _, _)
DrawLoop(decks, stock, waste, n) ==
    IF n = 0 \/ Len(decks[stock]) = 0 THEN decks
    ELSE LET c == Deck_draw(decks[stock])
             drawn == [decks EXCEPT ![stock] = c.cards]
             put == [drawn EXCEPT ![waste] = Deck_insert0(@, c.card)]
         IN Bind(put, LAMBDA d : DrawLoop(d, stock, waste, n - 1))

\* Game.draw_stock gone wrong: the draw is not recorded in history.
Game_draw_stock_no_append(g) ==
    LET draw(h) ==
            [h EXCEPT !.decks = DrawLoop(h.decks, h.stock, h.waste, h.draw_count)]
    IN IF Len(g.decks[g.stock]) = 0
       THEN IF Len(g.decks[g.waste]) = 0
            THEN [err |-> "RulesError", g |-> g]
            ELSE IF g.stock_pass_limit > 0
                    /\ g.current_stock_pass >= g.stock_pass_limit
            THEN [err |-> "RulesError", g |-> g]
            ELSE [err |-> "AttributeError", g |-> [g EXCEPT !.stock = g.waste]]
       ELSE [err |-> "none", g |-> draw(g)]

\* Game.draw_stock gone wrong: no check that stock and waste are both empty.
Game_draw_stock_exhausted_ok(g) ==
    IF Len(g.decks[g.stock]) = 0
    THEN IF Len(g.decks[g.waste]) = 0
         THEN [err |-> "none", g |-> AppendState(g)]
         ELSE IF g.stock_pass_limit > 0
                 /\ g.current_stock_pass >= g.stock_pass_limit
         THEN [err |-> "RulesError", g |-> g]
         ELSE [err |-> "AttributeError", g |-> [g EXCEPT !.stock = g.waste]]
    ELSE [err |-> "none",
          g |-> AppendState([g EXCEPT !.decks =
                    DrawLoop(g.decks, g.stock, g.waste, g.draw_count)])]

\* Game.draw_stock gone wrong: a stock_pass_limit of 0 is taken as a limit.
Game_draw_stock_zero_is_limit(g) ==
    IF Len(g.decks[g.stock]) = 0
    THEN IF Len(g.decks[g.waste]) = 0
         THEN [err |-> "RulesError", g |-> g]
         ELSE IF g.current_stock_pass >= g.stock_pass_limit
         THEN [err |-> "RulesError", g |-> g]
         ELSE [err |-> "AttributeError", g |-> [g EXCEPT !.stock = g.waste]]
    ELSE [err |-> "none",
          g |-> AppendState([g EXCEPT !.decks =
                    DrawLoop(g.decks, g.stock, g.waste, g.draw_count)])]

\* Game.draw_stock.  Class Deck defines no flip, so self.stock.flip() raises
\* AttributeError after self.stock has been bound to the waste Deck, and the
\* statements after it (the pass counter, the new waste Deck, the draw loop
\* and the history entry) do not run in that call.  The branch for a Deck
\* with a flip is the rest of the method, flip turning the list over as
\* Deck.reverse does.
Game_draw_stock(g) ==
    LET draw(h) ==
            AppendState([h EXCEPT !.decks =
                            DrawLoop(h.decks, h.stock, h.waste, h.draw_count)])
    IN IF Len(g.decks[g.stock]) = 0
       THEN IF Len(g.decks[g.waste]) = 0
            THEN [err |-> "RulesError", g |-> g]
            ELSE IF g.stock_pass_limit > 0
                    /\ g.current_stock_pass >= g.stock_pass_limit
            THEN [err |-> "RulesError", g |-> g]
            ELSE LET bound == [g EXCEPT !.stock = g.waste]
                 IN IF "flip" \notin DeckAttrs
                    THEN [err |-> "AttributeError", g |-> bound]
                    ELSE [err |-> "none",
                          g |-> draw([bound EXCEPT
                                        !.decks = [@ EXCEPT ![bound.stock] = Reverse(@)],
                                        !.current_stock_pass = @ + 1,
                                        !.waste = Min(DeckIds \ UsedIds(bound))])]
       ELSE [err |-> "none", g |-> draw(g)]

InRange(pile, g) == ~(pile < 0 \/ pile >= num_piles_of(g.tableau))

\* Game.move_tableau_stack.
Game_move_tableau_stack(g, source_pile, dest_pile, count) ==
    IF ~InRange(source_pile, g) THEN [err |-> "ValueError", g |-> g]
    ELSE IF ~InRange(dest_pile, g) THEN [err |-> "ValueError", g |-> g]
    ELSE IF count < 1 THEN [err |-> "ValueError", g |-> g]
    ELSE IF count > Len(g.tableau[source_pile].shown)
    THEN [err |-> "RulesError", g |-> g]
    ELSE LET cur_bot == g.tableau[source_pile].shown[count]
             next_needed == Pile_needs(g.tableau[dest_pile])
         IN IF next_needed.err # "none" THEN [err |-> next_needed.err, g |-> g]
            ELSE IF ~CardIn(cur_bot, next_needed.cards)
            THEN [err |-> "RulesError", g |-> g]
            ELSE LET taken == Pile_take(g.tableau[source_pile], count)
                     g1 == [g EXCEPT !.tableau[source_pile] = taken.pile]
                     given == Pile_give(g1.tableau[dest_pile], taken.cards)
                     g2 == [g1 EXCEPT !.tableau[dest_pile] = given.pile]
                 IN IF taken.err # "none" THEN [err |-> taken.err, g |-> g]
                    ELSE IF given.err # "none" THEN [err |-> given.err, g |-> g2]
                    ELSE [err |-> "none", g |-> AppendState(g2)]

\* Game.move_tableau_card.
Game_move_tableau_card(g, source_pile, dest) ==
    IF dest.type = "TABLEAU" THEN [err |-> "RulesError", g |-> g]
    ELSE IF dest.type = "WASTE" THEN [err |-> "RulesError", g |-> g]
    ELSE IF dest.type = "FOUNDATION"
    THEN IF ~InRange(source_pile, g) THEN [err |-> "ValueError", g |-> g]
         ELSE LET tp == Pile_top(g.tableau[source_pile])
                  g1 == [g EXCEPT !.tableau[source_pile] = tp.pile]
                  expected == Foundation_needs(g.foundations[dest.suit], dest.suit)
                  taken == Pile_take(tp.pile, 1)
                  g2 == [g1 EXCEPT !.tableau[source_pile] = taken.pile]
                  added == Foundation_add(g.foundations[dest.suit], dest.suit,
                                          taken.cards[1])
              IN IF expected.err # "none" THEN [err |-> expected.err, g |-> g1]
                 ELSE IF ~PyEq(tp.card, expected.card)
                 THEN [err |-> "RulesError", g |-> g1]
                 ELSE IF taken.err # "none" THEN [err |-> taken.err, g |-> g1]
                 ELSE IF added.err # "none" THEN [err |-> added.err, g |-> g2]
                 ELSE [err |-> "none",
                       g |-> AppendState([g2 EXCEPT !.foundations[dest.suit] =
                                                        added.cards])]
    ELSE [err |-> "ValueError", g |-> g]

\* Game.move_waste_card.
Game_move_waste_card(g, dest) ==
    LET top == IF Len(g.decks[g.waste]) > 0 THEN g.decks[g.waste][1] ELSE None
        drawn == Deck_draw(g.decks[g.waste])
        g1 == [g EXCEPT !.decks[g.waste] = drawn.cards]
    IN IF dest.type = "TABLEAU"
       THEN IF ~InRange(dest.pile, g) THEN [err |-> "RulesError", g |-> g]
            ELSE LET needs == Pile_needs(g.tableau[dest.pile])
                     given == Pile_give(g.tableau[dest.pile], <<drawn.card>>)
                 IN IF needs.err # "none" THEN [err |-> needs.err, g |-> g]
                    ELSE IF ~CardIn(top, needs.cards)
                    THEN [err |-> "RulesError", g |-> g]
                    ELSE IF drawn.err # "none" THEN [err |-> drawn.err, g |-> g]
                    ELSE IF given.err # "none"
                    THEN [err |-> given.err,
                          g |-> [g1 EXCEPT !.tableau[dest.pile] = given.pile]]
                    ELSE [err |-> "none",
                          g |-> AppendState([g1 EXCEPT !.tableau[dest.pile] =
                                                           given.pile])]
       ELSE IF dest.type = "FOUNDATION"
       THEN LET expected == Foundation_needs(g.foundations[dest.suit], dest.suit)
                added == Foundation_add(g.foundations[dest.suit], dest.suit,
                                        drawn.card)
            IN IF expected.err # "none" THEN [err |-> expected.err, g |-> g]
               ELSE IF ~PyEq(top, expected.card)
               THEN [err |-> "RulesError", g |-> g]
               ELSE IF drawn.err # "none" THEN [err |-> drawn.err, g |-> g]
               ELSE IF added.err # "none" THEN [err |-> added.err, g |-> g1]
               ELSE [err |-> "none",
                     g |-> AppendState([g1 EXCEPT !.foundations[dest.suit] =
                                                      added.cards])]
       ELSE [err |-> "RulesError", g |-> g]

\* Game.move_foundation_card: the card that goes to the pile is drawn from
\* the waste (c = self.waste.draw()), and the foundation is only looked at.
Game_move_foundation_card(g, fsuit, dest) ==
    IF dest.type = "TABLEAU"
    THEN IF ~InRange(dest.pile, g) THEN [err |-> "RulesError", g |-> g]
         ELSE LET card == Foundation_top(g.foundations[fsuit])
                  needs == Pile_needs(g.tableau[dest.pile])
                  drawn == Deck_draw(g.decks[g.waste])
                  g1 == [g EXCEPT !.decks[g.waste] = drawn.cards]
                  given == Pile_give(g.tableau[dest.pile], <<drawn.card>>)
                  g2 == [g1 EXCEPT !.tableau[dest.pile] = given.pile]
              IN IF needs.err # "none" THEN [err |-> needs.err, g |-> g]
                 ELSE IF ~CardIn(card, needs.cards)
                 THEN [err |-> "RulesError", g |-> g]
                 ELSE IF drawn.err # "none" THEN [err |-> drawn.err, g |-> g]
                 ELSE IF given.err # "none" THEN [err |-> given.err, g |-> g2]
                 ELSE [err |-> "none", g |-> AppendState(g2)]
    ELSE IF dest.type = "WASTE" THEN [err |-> "RulesError", g |-> g]
    ELSE IF dest.type = "FOUNDATION" THEN [err |-> "RulesError", g |-> g]
    ELSE [err |-> "ValueError", g |-> g]

\* Game.take_turn.
Game_take_turn(g, player, action) ==
    IF player # 0 THEN [err |-> "RulesError", g |-> g]
    ELSE IF action.type = "DRAW" THEN Game_draw_stock(g)
    ELSE IF action.type = "MOVE_TABLEAU_STACK"
    THEN Game_move_tableau_stack(g, action.source.pile, action.dest.pile,
                                 action.count)
    ELSE IF action.type = "MOVE_ONE"
    THEN IF action.source.type = "TABLEAU"
         THEN Game_move_tableau_card(g, action.source.pile, action.dest)
         ELSE IF action.source.type = "WASTE"
         THEN Game_move_waste_card(g, action.dest)
         ELSE IF action.source.type = "FOUNDATION"
         THEN Game_move_foundation_card(g, action.source.suit, action.dest)
         ELSE [err |-> "ValueError", g |-> g]
    ELSE [err |-> "none", g |-> g]

\* Game.undo gone wrong: the guard lets the only entry be popped, and
\* self.history[-1] then raises IndexError.
Game_undo_off_by_one(g) ==
    IF Len(g.history) < 1 THEN [err |-> "RulesError", g |-> g]
    ELSE IF Len(g.history) = 1
    THEN [err |-> "IndexError", g |-> [g EXCEPT !.history = <<>>]]
    ELSE LET popped == SubSeq(g.history, 1, Len(g.history) - 1)
             last == popped[Len(popped)]
             new_waste == Min(DeckIds \ HistoryIds(popped))
             new_stock == Min(DeckIds \ (HistoryIds(popped) \cup {new_waste}))
         IN [err |-> "none",
             g |-> [g EXCEPT
                      !.history = popped,
                      !.tableau = last.tableau,
                      !.foundations = last.foundations,
                      !.waste = new_waste,
                      !.stock = new_stock,
                      !.decks = [@ EXCEPT ![new_waste] = g.decks[last.waste],
                                          ![new_stock] = g.decks[last.stock]],
                      !.current_stock_pass = last.current_stock_pass]]

\* Game.undo.  The restored waste and stock are clones of the Decks of the
\* snapshot that is now last.
Game_undo(g) ==
    IF Len(g.history) < 2 THEN [err |-> "RulesError", g |-> g]
    ELSE LET popped == SubSeq(g.history, 1, Len(g.history) - 1)
             last == popped[Len(popped)]
             new_waste == Min(DeckIds \ HistoryIds(popped))
             new_stock == Min(DeckIds \ (HistoryIds(popped) \cup {new_waste}))
             waste_clone == Deck_clone(g.decks, last.waste, new_waste)
             stock_clone == Deck_clone(waste_clone.decks, last.stock, new_stock)
         IN [err |-> "none",
             g |-> [g EXCEPT
                      !.history = popped,
                      !.tableau = last.tableau,
                      !.foundations = last.foundations,
                      !.waste = waste_clone.id,
                      !.stock = stock_clone.id,
                      !.decks = stock_clone.decks,
                      !.current_stock_pass = last.current_stock_pass]]

\* Game.running gone wrong: the game stops once any foundation is complete.
running_any(foundations) ==
    [err |-> "none",
     value |-> ~(\E s \in Suit :
                    Foundation_needs(foundations[s], s).card = None)]

\* Game.running: all(f.needs() is None for f in self.foundations.values())
\* asks the foundations in the order of Suit and stops at the first that
\* needs a card (or whose needs() raises).
running(foundations) ==
    LET asked == {s \in Suit :
                    \A t \in Suit : t < s =>
                        /\ Foundation_needs(foundations[t], t).err = "none"
                        /\ Foundation_needs(foundations[t], t).card = None}
        raised == {s \in asked : Foundation_needs(foundations[s], s).err # "none"}
    IN IF raised # {}
       THEN [err |-> "ValueError", value |-> FALSE]
       ELSE [err |-> "none",
             value |-> ~(\A s \in Suit :
                            Foundation_needs(foundations[s], s).card = None)]

\* ----------------------------------------------------------------- State
\* What a State holds, its Decks read out of the object store.
Contents(st, decks) ==
    [tableau |-> st.tableau,
     foundations |-> st.foundations,
     stock |-> decks[st.stock],
     waste |-> decks[st.waste],
     current_stock_pass |-> st.current_stock_pass,
     pass_limit |-> st.pass_limit,
     draw_count |-> st.draw_count]

\* What game.state holds at the moment it is read.
LiveContents(g) ==
    [tableau |-> g.tableau,
     foundations |-> g.foundations,
     stock |-> g.decks[g.stock],
     waste |-> g.decks[g.waste],
     current_stock_pass |-> g.current_stock_pass,
     pass_limit |-> g.stock_pass_limit,
     draw_count |-> g.draw_count]

RECURSIVE Flatten(_)
Flatten(seqs) == IF Len(seqs) = 0 THEN <<>> ELSE seqs[1] \o Flatten(Tail(seqs))

\* The sort of the stack moves left out: they stay in the order found, by
\* destination pile first.
SortBySourceDest_unsorted(moves, n) == moves

\* list.sort(key=lambda m: (m.source_pile, m.dest_pile)): stable, ascending.
SortBySourceDest(moves, n) ==
    Flatten([k \in 1..(n * n) |->
                SelectSeq(moves, LAMBDA m : m.source.pile = (k - 1) \div n
                                            /\ m.dest.pile = (k - 1) % n)])

\* Index of the first shown card of source that is in cards, 0 if none.
FirstIn(shown, cards) ==
    IF \E i \in 1..Len(shown) : CardIn(shown[i], cards)
    THEN Min({i \in 1..Len(shown) : CardIn(shown[i], cards)})
    ELSE 0

\* State.legal_moves on the contents v of a State.
legal_moves(v) ==
    LET n == num_piles_of(v.tableau)
        suits == <<CLUBS, DIAMONDS, HEARTS, SPADES>>
        needs(i) == Pile_needs(v.tableau[i])
        fneeds(s) == Foundation_needs(v.foundations[s], s)
        raises ==
            \/ \E i \in 0..(n - 1) : needs(i).err # "none"
            \/ /\ Len(v.waste) > 0 \/ \E i \in 0..(n - 1) : Len(v.tableau[i].shown) > 0
               /\ \E s \in Suit : fneeds(s).err # "none"
        draw ==
            IF Len(v.stock) > 0
               \/ (Len(v.waste) > 0
                   /\ (v.pass_limit < 1 \/ v.current_stock_pass < v.pass_limit))
            THEN <<DrawAction>> ELSE <<>>
        from_waste ==
            IF Len(v.waste) > 0
            THEN Flatten([i \in 1..n |->
                            IF CardIn(v.waste[1], needs(i - 1).cards)
                            THEN <<MoveOneAction(WastePosition, TableauPosition(i - 1)).action>>
                            ELSE <<>>])
                 \o Flatten([k \in 1..4 |->
                            IF Card_eq(v.waste[1], fneeds(suits[k]).card)
                            THEN <<MoveOneAction(WastePosition, FoundationPosition(suits[k])).action>>
                            ELSE <<>>])
            ELSE <<>>
        to_foundation ==
            Flatten([i \in 1..n |->
                IF Len(v.tableau[i - 1].shown) = 0 THEN <<>>
                ELSE Flatten([k \in 1..4 |->
                        IF Card_eq(v.tableau[i - 1].shown[1], fneeds(suits[k]).card)
                        THEN <<MoveOneAction(TableauPosition(i - 1),
                                             FoundationPosition(suits[k])).action>>
                        ELSE <<>>])])
        tableau_moves ==
            Flatten([idx \in 1..n |->
                Flatten([from_idx \in 1..n |->
                    IF from_idx = idx THEN <<>>
                    ELSE LET card_idx == FirstIn(v.tableau[from_idx - 1].shown,
                                                 needs(idx - 1).cards)
                         IN IF card_idx = 0 THEN <<>>
                            ELSE <<MoveTableauStackAction(from_idx - 1, idx - 1,
                                                          card_idx).action>>])])
        from_foundation ==
            Flatten([k \in 1..4 |->
                IF Len(v.foundations[suits[k]]) = 0 THEN <<>>
                ELSE Flatten([i \in 1..n |->
                        IF CardIn(Foundation_top(v.foundations[suits[k]]),
                                  needs(i - 1).cards)
                        THEN <<MoveOneAction(FoundationPosition(suits[k]),
                                             TableauPosition(i - 1)).action>>
                        ELSE <<>>])])
    IN IF raises
       THEN [err |-> "ValueError", moves |-> <<>>]
       ELSE [err |-> "none",
             moves |-> draw \o from_waste \o to_foundation
                       \o SortBySourceDest(tableau_moves, n) \o from_foundation]

\* Game.state_with_turn_applied: take_turn, a clone of the state, undo.
Game_state_with_turn_applied(g, action) ==
    LET turned == Game_take_turn(g, 0, action)
        undone == Game_undo(turned.g)
    IN IF turned.err # "none"
       THEN [err |-> turned.err, g |-> turned.g, state |-> LiveContents(turned.g)]
       ELSE [err |-> undone.err, g |-> undone.g, state |-> LiveContents(turned.g)]

\* State.after on the contents v of a State: a scratch Game is built with
\* deck=None (so from Deck() shuffled, which the model takes unshuffled), is
\* given clones of the State's containers and is asked for
\* state_with_turn_applied.
after(v, action) ==
    IF Deck_default.err # "none"
    THEN [err |-> Deck_default.err, state |-> v]
    ELSE LET n == num_piles_of(v.tableau)
             dealt == Deal(Deck_default.cards, 0, n)
             g == [tableau |-> v.tableau,
                   foundations |-> v.foundations,
                   stock |-> 1,
                   waste |-> 2,
                   decks |-> [d \in DeckIds |-> IF d = 1 THEN v.stock
                                                 ELSE IF d = 2 THEN v.waste
                                                 ELSE IF d = 3 THEN dealt.stock
                                                 ELSE <<>>],
                   current_stock_pass |-> v.current_stock_pass,
                   history |-> <<[tableau |-> [i \in 0..(n - 1) |-> dealt.piles[i + 1]],
                                  foundations |-> [s \in Suit |-> <<>>],
                                  stock |-> 3,
                                  waste |-> 4,
                                  current_stock_pass |-> 1,
                                  pass_limit |-> v.pass_limit,
                                  draw_count |-> v.draw_count]>>,
                   draw_count |-> v.draw_count,
                   stock_pass_limit |-> v.pass_limit]
             r == Game_state_with_turn_applied(g, action)
         IN IF dealt.err # "none" THEN [err |-> dealt.err, state |-> v]
            ELSE [err |-> r.err, state |-> r.state]

\* len(range(0, stop, step)) for step >= 1.
RangeLen(stop, step) == IF stop <= 0 THEN 0 ELSE (stop + step - 1) \div step

\* State.remaining_stock_flips.
remaining_stock_flips(v) ==
    IF v.pass_limit > 0 THEN v.pass_limit - v.current_stock_pass ELSE 0 - 1

\* State.accessible_stock_cards on the contents v of a State.  The simulated
\* flip calls Deck.flip, which class Deck does not define; what follows the
\* call is written for a flip that reverses the Deck.
accessible_stock_cards(v) ==
    LET n == v.draw_count
        top == IF Len(v.waste) > 0 THEN <<v.waste[1]>> ELSE <<>>
        every_nth ==
            IF Len(v.stock) > 0 /\ v.current_stock_pass > 1
            THEN [k \in 1..RangeLen(Len(v.stock), n) |->
                    LET idx == (k - 1) * n + n - 1
                    IN IF idx >= Len(v.stock) THEN v.stock[Len(v.stock)]
                       ELSE v.stock[idx + 1]]
            ELSE <<>>
        original_top == Len(v.waste) - 1
        shifted_waste == Len(v.waste) % n # 0
        drawn == IF shifted_waste /\ v.current_stock_pass > 1 /\ Len(v.stock) > 0
                 THEN Reverse(SubSeq(v.stock, 1, IF n < Len(v.stock) THEN n
                                                 ELSE Len(v.stock)))
                 ELSE <<>>
        next_stock == Reverse(drawn \o v.waste)
        after_flip ==
            Flatten([k \in 1..RangeLen(Len(next_stock) - n, n) |->
                        LET idx == (k - 1) * n + n - 1
                        IN IF idx = original_top THEN <<>>
                           ELSE <<next_stock[idx + 1]>>])
    IN IF Len(v.waste) >= n /\ (v.pass_limit < 1 \/ remaining_stock_flips(v) > 0)
       THEN IF "flip" \notin DeckAttrs
            THEN [err |-> "AttributeError", cards |-> <<>>]
            ELSE [err |-> "none", cards |-> top \o every_nth \o after_flip]
       ELSE [err |-> "none", cards |-> top \o every_nth]

\* State.playable_destinations on the contents v of a State: foundations
\* first, in the order of Suit, then tableau piles.
playable_destinations(v, c) ==
    LET n == num_piles_of(v.tableau)
        suits == <<CLUBS, DIAMONDS, HEARTS, SPADES>>
        fneeds(s) == Foundation_needs(v.foundations[s], s)
        needs(i) == Pile_needs(v.tableau[i])
    IN IF \E s \in Suit : fneeds(s).err # "none"
       THEN [err |-> "ValueError", locs |-> <<>>]
       ELSE IF \E i \in 0..(n - 1) : needs(i).err # "none"
       THEN [err |-> "ValueError", locs |-> <<>>]
       ELSE [err |-> "none",
             locs |-> Flatten([k \in 1..4 |->
                                IF Card_eq(c, fneeds(suits[k]).card)
                                THEN <<FoundationPosition(suits[k])>>
                                ELSE <<>>])
                      \o Flatten([i \in 1..n |->
                                IF CardIn(c, needs(i - 1).cards)
                                THEN <<TableauPosition(i - 1)>>
                                ELSE <<>>])]

\* MoveTableauStackAction.splits_stack.
splits_stack(m, v) == Len(v.tableau[m.source.pile].shown) > m.count

\* The first move of a list, as a list: the move self.after(m) is called with
\* first in a loop over the list.
FirstOf(ms) == IF Len(ms) = 0 THEN <<>> ELSE <<ms[1]>>

\* The exception of the first self.after(m) that raises over the moves given,
\* in order; "none" when none does.
RECURSIVE first_raised(_, _)
first_raised(v, ms) ==
    IF Len(ms) = 0 THEN "none"
    ELSE Bind(after(v, ms[1]).err,
              LAMBDA e : IF e # "none" THEN e ELSE first_raised(v, Tail(ms)))

\* State.has_useful_moves behind its first return, on the contents v of a
\* State; value is "None", "True" or "False".  Each loop over moves runs up
\* to its first call of self.after(m): State.after builds Game(deck=None),
\* and the statements behind the call are reached only if that returns.
useful_moves_on(v, lm) ==
    LET moves == lm.moves
        single_card_moves == SelectSeq(moves, LAMBDA m : m.type = "MOVE_ONE")
        stack_moves == SelectSeq(moves, LAMBDA m : m.type = "MOVE_TABLEAU_STACK")
        from_foundation_moves ==
            SelectSeq(single_card_moves, LAMBDA m : m.source.type = "FOUNDATION")
        tableau_to_foundation_moves ==
            SelectSeq(single_card_moves,
                      LAMBDA m : m.source.type = "TABLEAU" /\ m.dest.type = "FOUNDATION")
        full_stack_moves == SelectSeq(stack_moves, LAMBDA m : ~splits_stack(m, v))
        split_stack_moves == SelectSeq(stack_moves, LAMBDA m : splits_stack(m, v))
        \* the from-foundation moves for which self.after(m) is called
        not_aces ==
            SelectSeq(from_foundation_moves,
                      LAMBDA m : m.dest.type = "TABLEAU"
                                 /\ Foundation_top(v.foundations[m.source.suit]).rank # ACE)
        reveals_hidden(m) ==
            LET t == v.tableau[m.source.pile]
            IN Len(t.hidden) > 0 /\ Len(t.shown) = 1
        acc == accessible_stock_cards(v)
        dests == [i \in 1..Len(acc.cards) |-> playable_destinations(v, acc.cards[i])]
        stock_part ==
            IF acc.err # "none" THEN [err |-> acc.err, value |-> "None"]
            ELSE IF \E i \in 1..Len(dests) :
                         /\ \A j \in 1..i : dests[j].err = "none"
                         /\ Len(dests[i].locs) > 0
            THEN [err |-> "none", value |-> "True"]
            ELSE IF \E i \in 1..Len(dests) : dests[i].err # "none"
            THEN [err |-> "ValueError", value |-> "None"]
            ELSE [err |-> "none", value |-> "False"]
    IN IF lm.err # "none" THEN [err |-> lm.err, value |-> "None"]
       ELSE IF Len(moves) = 0 THEN [err |-> "none", value |-> "False"]
       ELSE Bind(first_raised(v, FirstOf(not_aces)),
                 LAMBDA e1 :
                     IF e1 # "none" THEN [err |-> e1, value |-> "None"]
                     ELSE IF Len(tableau_to_foundation_moves) > 0
                             /\ reveals_hidden(tableau_to_foundation_moves[1])
                     THEN [err |-> "none", value |-> "True"]
                     ELSE Bind(first_raised(v, FirstOf(tableau_to_foundation_moves)
                                               \o FirstOf(full_stack_moves)
                                               \o FirstOf(split_stack_moves)),
                               LAMBDA e2 :
                                   IF e2 # "none" THEN [err |-> e2, value |-> "None"]
                                   ELSE stock_part))

\* State.has_useful_moves gone wrong: without legal moves the result is left
\* undetermined.
useful_moves_of_undetermined(v) ==
    Bind(legal_moves(v),
         LAMBDA lm : IF lm.err = "none" /\ Len(lm.moves) = 0
                     THEN [err |-> "none", value |-> "None"]
                     ELSE useful_moves_on(v, lm))

\* State.has_useful_moves behind its first return.
useful_moves_of(v) == Bind(legal_moves(v), LAMBDA lm : useful_moves_on(v, lm))

\* State.has_useful_moves gone wrong: the pass limit is not looked at.
has_useful_moves_any_limit(v) ==
    IF ~(v.current_stock_pass > 1 \/ Len(v.stock) = 0)
    THEN [err |-> "none", value |-> "None"]
    ELSE useful_moves_of(v)

\* State.has_useful_moves: None when it cannot be determined due to passes.
has_useful_moves(v) ==
    IF ~(v.current_stock_pass > 1 \/ (Len(v.stock) = 0 /\ v.pass_limit # 1))
    THEN [err |-> "none", value |-> "None"]
    ELSE useful_moves_of(v)

\* ------------------------------------------------------------ the machine
\* Fields of the Game object, and the Deck object store.
VARIABLES tableau, foundations, stock, waste, decks, current_stock_pass,
          history, draw_count, stock_pass_limit, starting_deck

\* The last call made on the game, how it ended, and how many take_turn and
\* undo calls have returned normally.
VARIABLES lastCall, lastResult, turns, undos

game_vars == <<tableau, foundations, stock, waste, decks, current_stock_pass,
               history, draw_count, stock_pass_limit, starting_deck>>
vars == <<tableau, foundations, stock, waste, decks, current_stock_pass,
          history, draw_count, stock_pass_limit, starting_deck,
          lastCall, lastResult, turns, undos>>

\* Largest draw_count a game is built with.
MaxDrawCount == 2

\* The stock_pass_limit values games are built with: no limit, and one pass.
PassLimits == {0, 1}

AC == C(ACE, CLUBS)
AS == C(ACE, SPADES)
C2H == C(2, HEARTS)
C3S == C(3, SPADES)
C4D == C(4, DIAMONDS)
KH == C(KING, HEARTS)
KS == C(KING, SPADES)

\* The fixed decks (top card first) and pile counts games are built with.
Deals ==
    { [deck |-> <<AC, KS, C2H, KH, AS>>, num_piles |-> 2],
      [deck |-> <<C3S, C4D, C2H, AC>>, num_piles |-> 2],
      [deck |-> <<AS, KS, C2H>>, num_piles |-> 1] }

Self ==
    [tableau |-> tableau, foundations |-> foundations, stock |-> stock,
     waste |-> waste, decks |-> decks,
     current_stock_pass |-> current_stock_pass, history |-> history,
     draw_count |-> draw_count, stock_pass_limit |-> stock_pass_limit]

Become(g) ==
    /\ tableau' = g.tableau
    /\ foundations' = g.foundations
    /\ stock' = g.stock
    /\ waste' = g.waste
    /\ decks' = g.decks
    /\ current_stock_pass' = g.current_stock_pass
    /\ history' = g.history
    /\ UNCHANGED <<draw_count, stock_pass_limit, starting_deck>>

\* What lastCall keeps of a call: the operation, the player and the kind of
\* action (its type and the types of its locations).
Call(op, player, action) ==
    [op |-> op, player |-> player, type |-> action.type,
     source |-> action.source.type, dest |-> action.dest.type]

Init ==
    \E deal \in Deals, dc \in 1..MaxDrawCount, limit \in PassLimits :
        \E g \in {Game_init(deal.deck, dc, limit, deal.num_piles)} :
           /\ tableau = g.tableau
           /\ foundations = g.foundations
           /\ stock = g.stock
           /\ waste = g.waste
           /\ decks = g.decks
           /\ current_stock_pass = g.current_stock_pass
           /\ history = g.history
           /\ draw_count = dc
           /\ stock_pass_limit = limit
           /\ starting_deck = deal.deck
           /\ lastCall = Call("none", 0, NoAction)
           /\ lastResult = "none"
           /\ turns = 0
           /\ undos = 0

\* Pile indices a caller names: every pile and one index past the last.
PileInputs == 0..num_piles_of(tableau)

\* game.take_turn(player, action)
TakeTurn(player, action) ==
    \E g \in {Self} : \E r \in {Game_take_turn(g, player, action)} :
       /\ r.err = "none" => turns + undos < MaxOps
       /\ Become(Collect(r.g))
       /\ lastCall' = Call("take_turn", player, action)
       /\ lastResult' = r.err
       /\ turns' = IF r.err = "none" THEN turns + 1 ELSE turns
       /\ UNCHANGED undos

Draw == TakeTurn(0, DrawAction)

WrongPlayer == TakeTurn(1, DrawAction)

MoveTableauStack ==
    \E source_pile \in PileInputs, dest_pile \in PileInputs, count \in 1..MaxCount :
        LET a == MoveTableauStackAction(source_pile, dest_pile, count)
        IN a.err = "none" /\ TakeTurn(0, a.action)

MoveTableauCard ==
    \E source_pile \in PileInputs, s \in Suit :
        LET a == MoveOneAction(TableauPosition(source_pile), FoundationPosition(s))
        IN a.err = "none" /\ TakeTurn(0, a.action)

MoveWasteCard ==
    \E dest \in {TableauPosition(i) : i \in PileInputs}
                \cup {FoundationPosition(s) : s \in Suit} :
        LET a == MoveOneAction(WastePosition, dest)
        IN a.err = "none" /\ TakeTurn(0, a.action)

MoveFoundationCard ==
    \E s \in Suit, dest_pile \in PileInputs :
        LET a == MoveOneAction(FoundationPosition(s), TableauPosition(dest_pile))
        IN a.err = "none" /\ TakeTurn(0, a.action)

\* game.undo()
Undo ==
    \E g \in {Self} : \E r \in {Game_undo(g)} :
       /\ r.err = "none" => turns + undos < MaxOps
       /\ Become(Collect(r.g))
       /\ lastCall' = Call("undo", 0, NoAction)
       /\ lastResult' = r.err
       /\ undos' = IF r.err = "none" THEN undos + 1 ELSE undos
       /\ UNCHANGED turns

\* game.state_with_turn_applied(action) for an action game.state lists as
\* legal (Draw where legal_moves itself raises).
Candidates ==
    LET lm == legal_moves(LiveContents(Self))
    IN IF lm.err = "none" THEN {lm.moves[i] : i \in 1..Len(lm.moves)}
       ELSE {DrawAction}

StateWithTurnApplied ==
    \E action \in Candidates :
        LET r == Game_state_with_turn_applied(Self, action)
            turned == Game_take_turn(Self, 0, action).err = "none"
        IN /\ turned => turns + undos + 2 <= MaxOps
           /\ Become(Collect(r.g))
           /\ lastCall' = Call("state_with_turn_applied", 0, action)
           /\ lastResult' = r.err
           /\ turns' = IF turned THEN turns + 1 ELSE turns
           /\ undos' = IF turned THEN undos + 1 ELSE undos

\* game.state.legal_moves()
LegalMoves ==
    /\ lastCall' = Call("legal_moves", 0, NoAction)
    /\ lastResult' = legal_moves(LiveContents(Self)).err
    /\ UNCHANGED <<game_vars, turns, undos>>

\* game.state.after(action)
After ==
    \E action \in Candidates :
        /\ lastCall' = Call("after", 0, action)
        /\ lastResult' = after(LiveContents(Self), action).err
        /\ UNCHANGED <<game_vars, turns, undos>>

\* The locations and the pile indices and counts a caller builds actions
\* from: every location of the game, one pile past the last and one before
\* the first, and counts from -1.
LocationInputs ==
    {TableauPosition(i) : i \in (0 - 1)..num_piles_of(tableau)}
        \cup {FoundationPosition(s) : s \in Suit}
        \cup {WastePosition}

StackInputs ==
    [source_pile : (0 - 1)..num_piles_of(tableau),
     dest_pile : (0 - 1)..num_piles_of(tableau),
     count : (0 - 1)..MaxCount]

\* MoveOneAction(source, dest) and MoveTableauStackAction(source_pile,
\* dest_pile, count) that raise: the caller is left without an action to
\* hand to take_turn, and the game is not touched.
NewAction ==
    \E op \in {"MoveOneAction", "MoveTableauStackAction"} :
        \E built \in IF op = "MoveOneAction"
                     THEN {MoveOneAction(source, dest) :
                             source \in LocationInputs, dest \in LocationInputs}
                     ELSE {MoveTableauStackAction(i.source_pile, i.dest_pile, i.count) :
                             i \in StackInputs} :
            /\ built.err # "none"
            /\ lastCall' = Call(op, 0, built.action)
            /\ lastResult' = built.err
            /\ UNCHANGED <<game_vars, turns, undos>>

Next ==
    \/ Draw
    \/ WrongPlayer
    \/ MoveTableauStack
    \/ MoveTableauCard
    \/ MoveWasteCard
    \/ MoveFoundationCard
    \/ Undo
    \/ StateWithTurnApplied
    \/ LegalMoves
    \/ After
    \/ NewAction

Spec == Init /\ [][Next]_vars

\* ------------------------------------------------ construction of a game
\* Largest num_piles a game is built with from a full deck.
MaxPiles == 9

\* The 52 cards, ranks ascending and the suits within a rank, and the deck
\* cut at k: cards k+1.. followed by cards 1..k.
FullDeck ==
    [i \in 1..(Cardinality(Rank) * Cardinality(Suit)) |->
        C(((i - 1) \div Cardinality(Suit)) + 1, ((i - 1) % Cardinality(Suit)) + 1)]

Cut(deck, k) == SubSeqFrom(deck, k + 1) \o SubSeq(deck, 1, k)

FullDecks == {Cut(FullDeck, k) : k \in 0..(Len(FullDeck) - 1)}

\* The arguments of a Game(...) call that has not been made yet.
InitDeal ==
    \E deck \in FullDecks, dc \in 1..MaxDrawCount, limit \in PassLimits :
        /\ tableau = <<>>
        /\ foundations = [s \in Suit |-> <<>>]
        /\ stock = 1
        /\ waste = 2
        /\ decks = [d \in DeckIds |-> <<>>]
        /\ current_stock_pass = 1
        /\ history = <<>>
        /\ draw_count = dc
        /\ stock_pass_limit = limit
        /\ starting_deck = deck
        /\ lastCall = Call("none", 0, NoAction)
        /\ lastResult = "none"
        /\ turns = 0
        /\ undos = 0

\* Game(draw_count, stock_pass_limit, deck, num_piles)
Construct ==
    /\ lastCall.op = "none"
    /\ \E n \in 0..MaxPiles :
        \E r \in {Game_new(starting_deck, draw_count, stock_pass_limit, n)} :
            /\ lastCall' = Call("__init__", 0, NoAction)
            /\ lastResult' = r.err
            /\ IF r.built
               THEN \E g \in {Game_init(starting_deck, draw_count,
                                         stock_pass_limit, n)} : Become(g)
               ELSE UNCHANGED game_vars
            /\ UNCHANGED <<turns, undos>>

\* Game(draw_count, stock_pass_limit) with no deck given: deck = Deck(),
\* shuffled (a cut stands for a shuffle), then the same construction.
ConstructDefault ==
    /\ lastCall.op = "none"
    /\ \E n \in 0..MaxPiles :
        /\ lastCall' = Call("Deck", 0, NoAction)
        /\ lastResult' = Deck_default.err
        /\ IF Deck_default.err = "none"
           THEN \E k \in 0..(Len(Deck_default.cards) - 1) :
                \E g \in {Game_init(Cut(Deck_default.cards, k), draw_count,
                                     stock_pass_limit, n)} :
                    /\ tableau' = g.tableau
                    /\ foundations' = g.foundations
                    /\ stock' = g.stock
                    /\ waste' = g.waste
                    /\ decks' = g.decks
                    /\ current_stock_pass' = g.current_stock_pass
                    /\ history' = g.history
                    /\ starting_deck' = Cut(Deck_default.cards, k)
                    /\ UNCHANGED <<draw_count, stock_pass_limit>>
           ELSE UNCHANGED game_vars
        /\ UNCHANGED <<turns, undos>>

NextDeal ==
    \/ Construct
    \/ ConstructDefault

SpecDeal == InitDeal /\ [][NextDeal]_vars

\* --------------------------------------------- the foundations of a game
\* The foundation of suit s holding Ace..k, the highest rank on top.
AceUpTo(s, k) == [i \in 1..k |-> C(k + 1 - i, s)]

\* The foundations start empty or complete.
InitFoundation ==
    \E h \in [Suit -> {0, KING}] :
        /\ tableau = <<>>
        /\ foundations = [s \in Suit |-> AceUpTo(s, h[s])]
        /\ stock = 1
        /\ waste = 2
        /\ decks = [d \in DeckIds |-> <<>>]
        /\ current_stock_pass = 1
        /\ history = <<>>
        /\ draw_count = 1
        /\ stock_pass_limit = 0
        /\ starting_deck = <<>>
        /\ lastCall = Call("none", 0, NoAction)
        /\ lastResult = "none"
        /\ turns = 0
        /\ undos = 0

\* The cards handed to the foundation of suit s: of its own suit and of the
\* suit after it, an Ace, a King, the next rank and the rank after that.
AddInputs(s) ==
    {C(r, t) : r \in {ACE, KING, Len(foundations[s]) + 1,
                       Len(foundations[s]) + 2} \cap Rank,
               t \in {s, (s % Cardinality(Suit)) + 1}}

\* game.foundations[s].add(card); turns counts the calls that return.
FoundationAdd ==
    \E s \in Suit : \E card \in AddInputs(s) :
        \E r \in {Foundation_add(foundations[s], s, card)} :
            /\ r.err = "none" => turns < MaxOps
            /\ foundations' = [foundations EXCEPT ![s] = r.cards]
            /\ lastCall' = Call("Foundation.add", 0, NoAction)
            /\ lastResult' = r.err
            /\ turns' = IF r.err = "none" THEN turns + 1 ELSE turns
            /\ UNCHANGED <<tableau, stock, waste, decks, current_stock_pass,
                           history, draw_count, stock_pass_limit,
                           starting_deck, undos>>

\* game.foundations[s].remove()
FoundationRemove ==
    \E s \in Suit :
        \E r \in {Foundation_remove(foundations[s])} :
            /\ r.err = "none" => turns < MaxOps
            /\ foundations' = [foundations EXCEPT ![s] = r.cards]
            /\ lastCall' = Call("Foundation.remove", 0, NoAction)
            /\ lastResult' = r.err
            /\ turns' = IF r.err = "none" THEN turns + 1 ELSE turns
            /\ UNCHANGED <<tableau, stock, waste, decks, current_stock_pass,
                           history, draw_count, stock_pass_limit,
                           starting_deck, undos>>

\* game.running
Running ==
    \E r \in {running(foundations)} :
        /\ lastCall' = Call("running", 0, NoAction)
        /\ lastResult' = IF r.err # "none" THEN r.err
                         ELSE IF r.value THEN "True" ELSE "False"
        /\ UNCHANGED <<game_vars, turns, undos>>

NextFoundation ==
    \/ FoundationAdd
    \/ FoundationRemove
    \/ Running

SpecFoundation == InitFoundation /\ [][NextFoundation]_vars

\* ---------------------------------------------------------- a single Pile
C2C == C(2, CLUBS)
C3C == C(3, CLUBS)
C4C == C(4, CLUBS)
C5C == C(5, CLUBS)

\* The cards piles are built from and given.
PileCards == {AC, AS, C2H, C3S, C4D, KH, KS}

\* The card lists Pile(cards) is called with: up to two of PileCards.
PileInits ==
    {<<>>} \cup {<<a>> : a \in PileCards}
           \cup {<<a, b>> : a \in PileCards, b \in PileCards}

\* The pile TestPile.test_take sets up for its case 'reveal hidden'.
TestPile == [shown |-> <<AC, C2C>>, hidden |-> <<C3C, C4C, C5C>>]

\* The card lists Pile.give is called with: one or two of PileCards, and two
\* longer runs.
GiveInputs ==
    {<<a>> : a \in PileCards}
        \cup {<<a, b>> : a \in PileCards, b \in PileCards}
        \cup {<<AS, C2H, C3S>>, <<AC, C2H, C3S, C4D>>}

\* The counts Pile.take is called with.
TakeInputs == (0 - 1)..(MaxCount + 1)

\* The pile under test is pile 0 of the tableau.
InitPile ==
    \E p \in {Pile_init(cards) : cards \in PileInits} \cup {TestPile} :
        /\ tableau = [i \in {0} |-> p]
        /\ foundations = [s \in Suit |-> <<>>]
        /\ stock = 1
        /\ waste = 2
        /\ decks = [d \in DeckIds |-> <<>>]
        /\ current_stock_pass = 1
        /\ history = <<>>
        /\ draw_count = 1
        /\ stock_pass_limit = 0
        /\ starting_deck = <<>>
        /\ lastCall = Call("none", 0, NoAction)
        /\ lastResult = "none"
        /\ turns = 0
        /\ undos = 0

\* What a call on the pile leaves: the pile, the call and how it ended;
\* turns counts the give and take calls that return.
PileCall(op, err, pile, counted) ==
    /\ (counted /\ err = "none") => turns < MaxOps
    /\ tableau' = [tableau EXCEPT ![0] = pile]
    /\ lastCall' = Call(op, 0, NoAction)
    /\ lastResult' = err
    /\ turns' = IF counted /\ err = "none" THEN turns + 1 ELSE turns
    /\ UNCHANGED <<foundations, stock, waste, decks, current_stock_pass,
                   history, draw_count, stock_pass_limit, starting_deck, undos>>

\* pile.give(cards)
PileGive ==
    \E cards \in GiveInputs :
        \E r \in {Pile_give(tableau[0], cards)} :
            PileCall("Pile.give", r.err, r.pile, TRUE)

\* pile.take(count)
PileTake ==
    \E count \in TakeInputs :
        \E r \in {Pile_take(tableau[0], count)} :
            PileCall("Pile.take", r.err, r.pile, TRUE)

\* pile.needs()
PileNeeds ==
    \E r \in {Pile_needs(tableau[0])} :
        PileCall("Pile.needs", r.err, tableau[0], FALSE)

\* pile.top()
PileTop ==
    \E r \in {Pile_top(tableau[0])} :
        PileCall("Pile.top", "none", r.pile, FALSE)

NextPile ==
    \/ PileGive
    \/ PileTake
    \/ PileNeeds
    \/ PileTop

SpecPile == InitPile /\ [][NextPile]_vars

\* ------------------------------------------------------- a State by itself
\* The stock and waste of TestState.test_accessible_stock_cards, case
\* 'simple case, draw 3', and the draw count of the case.
TestStock == <<C(7, CLUBS), C(8, CLUBS), C(9, CLUBS)>>
TestWaste == <<AC, C2C, C3C, C5C, C(6, CLUBS)>>
TestDrawCount == 3

\* The stocks and wastes a State is built with: the first cards of the test's
\* stock and the last cards of its waste.
StockInputs == {SubSeq(TestStock, 1, k) : k \in 0..Len(TestStock)}
WasteInputs == {SubSeqFrom(TestWaste, k) : k \in 1..(Len(TestWaste) + 1)}

\* The tableaus a State is built with: no pile (as in the test), one pile,
\* two piles with a hidden card, and three piles (5H, 6S, 4S) of which the
\* last plays on the first and the first on the second.
TableauInputs ==
    {<<>>,
     [i \in {0} |-> Pile_init(<<C2H>>)],
     [i \in {0, 1} |-> IF i = 0 THEN Pile_init(<<C2H, KS>>)
                       ELSE [shown |-> <<C2H, C3S>>, hidden |-> <<>>]],
     [i \in {0, 1} |-> IF i = 0 THEN Pile_init(<<C3S>>)
                       ELSE Pile_init(<<C4D, KH>>)],
     [i \in {0, 1, 2} |-> IF i = 0 THEN Pile_init(<<C(5, HEARTS)>>)
                          ELSE IF i = 1 THEN Pile_init(<<C(6, SPADES), KH>>)
                          ELSE Pile_init(<<C(4, SPADES)>>)]}

\* The foundations a State is built with: all empty, and clubs up to the 4.
FoundationInputs ==
    {[s \in Suit |-> <<>>],
     [s \in Suit |-> IF s = CLUBS THEN <<C4C, C3C, C2C, AC>> ELSE <<>>]}

\* State(tableau, foundations, stock, waste, current_stock_pass, pass_limit,
\* draw_count), held in the fields of the same names.
InitState ==
    /\ tableau \in TableauInputs
    /\ foundations \in FoundationInputs
    /\ stock = 1
    /\ waste = 2
    /\ \E st \in StockInputs, w \in WasteInputs :
            decks = [d \in DeckIds |-> IF d = 1 THEN st ELSE IF d = 2 THEN w ELSE <<>>]
    /\ current_stock_pass \in 1..2
    /\ history = <<>>
    /\ draw_count \in 1..TestDrawCount
    /\ stock_pass_limit \in 0..2
    /\ starting_deck = <<>>
    /\ lastCall = Call("none", 0, NoAction)
    /\ lastResult = "none"
    /\ turns = 0
    /\ undos = 0

\* state.accessible_stock_cards
AccessibleStockCards ==
    \E r \in {accessible_stock_cards(LiveContents(Self))} :
        /\ lastCall' = Call("accessible_stock_cards", 0, NoAction)
        /\ lastResult' = r.err
        /\ UNCHANGED <<game_vars, turns, undos>>

\* state.has_useful_moves()
HasUsefulMoves ==
    \E r \in {has_useful_moves(LiveContents(Self))} :
        /\ lastCall' = Call("has_useful_moves", 0, NoAction)
        /\ lastResult' = IF r.err # "none" THEN r.err ELSE r.value
        /\ UNCHANGED <<game_vars, turns, undos>>

NextState ==
    \/ AccessibleStockCards
    \/ HasUsefulMoves
    \/ LegalMoves

SpecState == InitState /\ [][NextState]_vars

\* ------------------------------------------------------- cards by themselves
\* One card of every rank and suit is held to start with (in the Deck of
\* identity 1); after a Card(...) call that returns, the Deck holds the new
\* card on top of the card held before.
InitCard ==
    /\ tableau = <<>>
    /\ foundations = [s \in Suit |-> <<>>]
    /\ stock = 1
    /\ waste = 2
    /\ \E r \in Rank, s \in Suit :
            decks = [d \in DeckIds |-> IF d = 1 THEN <<C(r, s)>> ELSE <<>>]
    /\ current_stock_pass = 1
    /\ history = <<>>
    /\ draw_count = 1
    /\ stock_pass_limit = 0
    /\ starting_deck = <<>>
    /\ lastCall = Call("none", 0, NoAction)
    /\ lastResult = "none"
    /\ turns = 0
    /\ undos = 0

\* The card held last.
HeldCard == decks[1][1]

CardCall(op, r) ==
    /\ decks' = IF r.err = "none"
                THEN [decks EXCEPT ![1] = <<r.card, HeldCard>>]
                ELSE decks
    /\ lastCall' = Call(op, 0, NoAction)
    /\ lastResult' = r.err
    /\ UNCHANGED <<tableau, foundations, stock, waste, current_stock_pass,
                   history, draw_count, stock_pass_limit, starting_deck,
                   turns, undos>>

\* Card(c.rank + 1, suit) and Card(c.rank - 1, suit) for the card c held.
CardOfInt ==
    \E d \in {0 - 1, 1}, s \in Suit :
        CardCall("Card(int)", Card_new(IntArg(HeldCard.rank + d), s))

\* Card(rank, suit) for a rank of Rank.
CardOfRank ==
    \E r \in Rank, s \in Suit : CardCall("Card(Rank)", Card_new(RankArg(r), s))

\* new == held, for the two cards held.
CardEq ==
    /\ Len(decks[1]) = 2
    /\ lastCall' = Call("Card.__eq__", 0, NoAction)
    /\ lastResult' = IF Card_eq(decks[1][1], decks[1][2]) THEN "True" ELSE "False"
    /\ UNCHANGED <<game_vars, turns, undos>>

NextCard ==
    \/ CardOfInt
    \/ CardOfRank
    \/ CardEq

SpecCard == InitCard /\ [][NextCard]_vars

\* ------------------------------------------------------ nothing but Draws
\* The decks and pile counts of games in which only Draw is taken: the fixed
\* deals, and one pile dealt from the first cards of the five-card deck, so
\* that the stock holds no card up to as many cards as Draws may succeed.
DrawDeals ==
    Deals \cup {[deck |-> SubSeq(<<AC, KS, C2H, KH, AS>>, 1, k), num_piles |-> 1] :
                    k \in 1..Smaller(MaxOps + 1, 5)}

\* The stock_pass_limit values of these games: no limit, one pass, two.
DrawLimits == 0..2

InitDraw ==
    \E deal \in DrawDeals, dc \in 1..MaxDrawCount, limit \in DrawLimits :
        \E g \in {Game_init(deal.deck, dc, limit, deal.num_piles)} :
           /\ tableau = g.tableau
           /\ foundations = g.foundations
           /\ stock = g.stock
           /\ waste = g.waste
           /\ decks = g.decks
           /\ current_stock_pass = g.current_stock_pass
           /\ history = g.history
           /\ draw_count = dc
           /\ stock_pass_limit = limit
           /\ starting_deck = deal.deck
           /\ lastCall = Call("none", 0, NoAction)
           /\ lastResult = "none"
           /\ turns = 0
           /\ undos = 0

\* The player goes on drawing: a Draw that can be taken is taken.
SpecDraw == InitDraw /\ [][Draw]_vars /\ WF_vars(Draw)

\* The well-formed actions a caller can hand to take_turn.
ActionInputs ==
    LET built ==
            {DrawAction}
            \cup {MoveTableauStackAction(sp, dp, n).action :
                    sp \in PileInputs, dp \in PileInputs, n \in 1..MaxCount}
            \cup {MoveOneAction(TableauPosition(sp), FoundationPosition(s)).action :
                    sp \in PileInputs, s \in Suit}
            \cup {MoveOneAction(WastePosition, TableauPosition(dp)).action :
                    dp \in PileInputs}
            \cup {MoveOneAction(WastePosition, FoundationPosition(s)).action :
                    s \in Suit}
            \cup {MoveOneAction(FoundationPosition(s), TableauPosition(dp)).action :
                    s \in Suit, dp \in PileInputs}
    IN built \ {NoAction}

\* The live containers and pass counter, and the snapshots in history, by
\* what they hold.
LiveNow == LiveContents(Self)
HistoryNow == [i \in 1..Len(history) |-> Contents(history[i], decks)]
StockNow == decks[stock]
WasteNow == decks[waste]

\* ---------------------------------------------------------------- claims

\* C1: every take_turn call that raises leaves the live tableau,
\* foundations, stock, waste, pass counter and history as they were before
\* the call.
C1_FailedTurnChangesNothing ==
    [][(lastCall'.op = "take_turn" /\ lastResult' # "none")
        => (LiveNow' = LiveNow /\ HistoryNow' = HistoryNow)]_vars

\* C2: a successful MoveOne from FoundationPosition(s) to TableauPosition(i)
\* takes the top card off foundation s and puts that card on top of pile i's
\* shown cards; waste and stock are unchanged.
C2_FoundationCardMoves ==
    [][(/\ lastCall'.op = "take_turn"
        /\ lastCall'.type = "MOVE_ONE"
        /\ lastCall'.source = "FOUNDATION"
        /\ lastCall'.dest = "TABLEAU"
        /\ lastResult' = "none")
        => (/\ \E s \in Suit, i \in DOMAIN tableau :
                /\ Len(foundations[s]) > 0
                /\ foundations' = [foundations EXCEPT ![s] = Tail(@)]
                /\ tableau' = [tableau EXCEPT
                                 ![i].shown = <<foundations[s][1]>> \o @]
            /\ WasteNow' = WasteNow
            /\ StockNow' = StockNow)]_vars

\* C3: every action game.state.legal_moves() returns is accepted by
\* take_turn(0, action): no error, and one more snapshot in history.
C3_LegalMovesAccepted ==
    LET lm == legal_moves(LiveNow)
    IN lm.err = "none" =>
        \A k \in 1..Len(lm.moves) :
            LET r == Game_take_turn(Self, 0, lm.moves[k])
            IN r.err = "none" /\ Len(r.g.history) = Len(history) + 1

\* C4: a well-formed action that take_turn(0, action) accepts is a member
\* of legal_moves() of the state the game was in before the call.
C4_AcceptedMovesAreLegal ==
    \A a \in ActionInputs :
        Game_take_turn(Self, 0, a).err = "none" =>
            LET lm == legal_moves(LiveNow)
            IN lm.err = "none" /\ \E k \in 1..Len(lm.moves) : lm.moves[k] = a

\* C5: take_turn that succeeds followed at once by undo gives back the
\* state the game was in before the turn: same cards in the same order in
\* every container, same shown/hidden split, same pass counter.
C5_UndoRestoresPreTurnState ==
    \A a \in ActionInputs :
        LET turned == Game_take_turn(Self, 0, a)
            undone == Game_undo(turned.g)
        IN turned.err = "none" =>
            (undone.err = "none" /\ LiveContents(undone.g) = LiveNow)

\* The first snapshot of a game built from starting_deck.
InitialDeal ==
    LET g == Game_init(starting_deck, draw_count, stock_pass_limit,
                       num_piles_of(tableau))
    IN Contents(g.history[1], g.decks)

\* C6: history is never empty and its first entry is the initial deal; undo
\* on a history of one entry raises RulesError and changes nothing.
C6_UndoAtStartRefused ==
    /\ Len(history) >= 1
    /\ HistoryNow[1] = InitialDeal
    /\ Len(history) = 1 =>
        LET r == Game_undo(Self)
        IN r.err = "RulesError" /\ r.g = Self

C6_Witness ==
    /\ lastCall.op = "undo"
    /\ lastResult = "RulesError"
    /\ Len(history) = 1
    /\ turns >= 1
    /\ undos >= 1

\* C7: len(history) = 1 + successful take_turn calls - successful undo
\* calls; a successful take_turn appends exactly one snapshot (of the state
\* it leaves), a successful undo removes exactly the last one, and a call
\* that raises leaves history as it was.
C7_HistoryAccounting ==
    /\ [](Len(history) = 1 + turns - undos)
    /\ [][/\ (lastCall'.op = "take_turn" /\ lastResult' = "none")
              => HistoryNow' = Append(HistoryNow, LiveNow')
          /\ (lastCall'.op = "undo" /\ lastResult' = "none")
              => HistoryNow' = SubSeq(HistoryNow, 1, Len(HistoryNow) - 1)
          /\ (lastCall'.op \in {"take_turn", "undo"} /\ lastResult' # "none")
              => HistoryNow' = HistoryNow]_vars

C7_Witness ==
    /\ turns >= 2
    /\ undos >= 1
    /\ lastCall.op = "take_turn"
    /\ lastResult # "none"
    /\ Len(history) = 2

\* C8: no live Deck is a Deck of a snapshot, no two snapshots share a Deck,
\* and no call changes what a snapshot that stays in history holds (also
\* once a Draw has bound the stock to the waste Deck).
C8_SnapshotsIndependent ==
    /\ []({stock, waste} \cap HistoryIds(history) = {})
    /\ [](Cardinality(HistoryIds(history)) = 2 * Len(history))
    /\ [][\A i \in 1..Len(history) :
            i <= Len(history') => HistoryNow'[i] = HistoryNow[i]]_vars

C8_Witness ==
    /\ stock = waste
    /\ lastCall.op = "take_turn"
    /\ lastCall.type = "DRAW"
    /\ lastResult = "none"
    /\ Len(history) >= 3

\* C9: State.after(action), for an action legal in the state, returns the
\* state take_turn(0, action) leads to; state_with_turn_applied(action)
\* returns that state too and leaves the live containers, pass counter and
\* history as they were.
C9_AfterIsTakeTurn ==
    LET lm == legal_moves(LiveNow)
    IN lm.err = "none" =>
        \A k \in 1..Len(lm.moves) :
            LET turned == Game_take_turn(Self, 0, lm.moves[k])
                aft == after(LiveNow, lm.moves[k])
                applied == Game_state_with_turn_applied(Self, lm.moves[k])
            IN /\ aft.err = "none"
               /\ aft.state = LiveContents(turned.g)
               /\ applied.err = "none"
               /\ applied.state = LiveContents(turned.g)
               /\ LiveContents(applied.g) = LiveNow
               /\ [i \in 1..Len(applied.g.history) |->
                      Contents(applied.g.history[i], applied.g.decks)] = HistoryNow

\* C10: Draw with an empty stock, a non-empty waste and the pass limit not
\* reached turns the waste over before it draws: the pass counter goes up by
\* one, and the cards drawn (in the order drawn) followed by the new stock
\* are the old waste reversed.
C10_DrawTurnsWasteOver ==
    [][(/\ lastCall'.op = "take_turn"
        /\ lastCall'.type = "DRAW"
        /\ lastCall'.player = 0
        /\ Len(StockNow) = 0
        /\ Len(WasteNow) > 0
        /\ ~(stock_pass_limit > 0 /\ current_stock_pass >= stock_pass_limit))
        => (/\ lastResult' = "none"
            /\ current_stock_pass' = current_stock_pass + 1
            /\ Reverse(WasteNow') \o StockNow' = Reverse(WasteNow))]_vars

\* C11: a successful Draw moves min(draw_count, len(stock)) cards from the
\* top of the stock to the top of the waste, one at a time: the last card
\* drawn is the new waste top and the old waste lies unchanged beneath.
C11_DrawMovesCards ==
    [][(/\ lastCall'.op = "take_turn"
        /\ lastCall'.type = "DRAW"
        /\ lastResult' = "none"
        /\ Len(StockNow) > 0)
        => LET n == Smaller(draw_count, Len(StockNow))
           IN /\ StockNow' = SubSeqFrom(StockNow, n + 1)
              /\ WasteNow' = Reverse(SubSeq(StockNow, 1, n)) \o WasteNow]_vars

\* The pass limit is reached: limit > 0 and current pass >= limit.
LimitReached == stock_pass_limit > 0 /\ current_stock_pass >= stock_pass_limit

\* C12: Draw with stock and waste both empty, and Draw with an empty stock,
\* a non-empty waste and the pass limit reached, raise RulesError and leave
\* stock, waste, pass counter and history unchanged.
C12_DrawRefused ==
    [][(/\ lastCall'.op = "take_turn"
        /\ lastCall'.type = "DRAW"
        /\ lastCall'.player = 0
        /\ Len(StockNow) = 0
        /\ (Len(WasteNow) = 0 \/ LimitReached))
        => (/\ lastResult' = "RulesError"
            /\ LiveNow' = LiveNow
            /\ stock' = stock
            /\ waste' = waste
            /\ HistoryNow' = HistoryNow)]_vars

C12_Witness ==
    /\ lastCall.op = "take_turn"
    /\ lastCall.type = "DRAW"
    /\ lastCall.player = 0
    /\ lastResult = "RulesError"
    /\ Len(StockNow) = 0
    /\ Len(WasteNow) = 0
    /\ turns >= 2

\* C13: the pass counter starts at 1 and, with a pass limit L > 0, is never
\* above L; with L = 0 a Draw that has to turn the waste over is never
\* refused with RulesError.
C13_PassCounterWithinLimit ==
    /\ current_stock_pass = 1
    /\ [](current_stock_pass >= 1)
    /\ [](stock_pass_limit > 0 => current_stock_pass <= stock_pass_limit)
    /\ [][(/\ lastCall'.op = "take_turn"
            /\ lastCall'.type = "DRAW"
            /\ lastCall'.player = 0
            /\ Len(StockNow) = 0
            /\ Len(WasteNow) > 0
            /\ stock_pass_limit = 0)
            => lastResult' # "RulesError"]_vars

C13_Witness ==
    /\ lastCall.op = "take_turn"
    /\ lastCall.type = "DRAW"
    /\ lastCall.player = 0
    /\ lastResult = "AttributeError"
    /\ stock_pass_limit = 0
    /\ current_stock_pass = 1
    /\ undos >= 1

\* k(k+1)/2: the cards the first k piles take.
Triangle(k) == (k * (k + 1)) \div 2

\* C14: a game built from a 52-card deck with N piles, N(N+1)/2 <= 52, has
\* i+1 cards in pile i, one shown and i hidden, 52 - N(N+1)/2 cards in the
\* stock, an empty waste and empty foundations; every card's place is fixed
\* by the deck order alone.
C14_DealLayout ==
    (lastCall.op = "__init__" /\ lastResult = "none") =>
        LET n == num_piles_of(tableau)
            deck == starting_deck
        IN /\ Triangle(n) <= Len(deck)
           /\ DOMAIN tableau = 0..(n - 1)
           /\ \A i \in 0..(n - 1) :
                /\ Len(tableau[i].shown) = 1
                /\ Len(tableau[i].hidden) = i
                /\ tableau[i].shown = <<deck[Triangle(i + 1)]>>
                /\ tableau[i].hidden = [j \in 1..i |-> deck[Triangle(i + 1) - j]]
           /\ Len(StockNow) = Cardinality(Rank) * Cardinality(Suit) - Triangle(n)
           /\ StockNow = SubSeqFrom(deck, Triangle(n) + 1)
           /\ WasteNow = <<>>
           /\ \A s \in Suit : foundations[s] = <<>>

C14_Witness ==
    /\ lastCall.op = "__init__"
    /\ lastResult = "none"
    /\ num_piles_of(tableau) = 7
    /\ Len(StockNow) = 24
    /\ starting_deck # FullDeck

\* C15: Deck() with no cards given builds 52 cards, each (rank, suit)
\* combination exactly once.
C15_DefaultDeckIsFull ==
    lastCall.op = "Deck" =>
    /\ lastResult = "none"
    /\ Deck_default.err = "none"
    /\ Len(Deck_default.cards) = Cardinality(Rank) * Cardinality(Suit)
    /\ \A r \in Rank, s \in Suit :
        Cardinality({i \in 1..Len(Deck_default.cards) :
                        Deck_default.cards[i] = C(r, s)}) = 1

\* Every foundation holds Ace..k of its own suit, ascending, 0 <= k <= 13.
FoundationsInOrder ==
    \A s \in Suit :
        /\ Len(foundations[s]) <= KING
        /\ foundations[s] = AceUpTo(s, Len(foundations[s]))

C17_FoundationAdd ==
    /\ FoundationsInOrder
    /\ \A s \in Suit, r \in Rank, t \in Suit :
        LET card == C(r, t)
            cards == foundations[s]
            added == Foundation_add(cards, s, card)
            fits == /\ t = s
                    /\ r = IF Len(cards) = 0 THEN ACE ELSE cards[1].rank + 1
        IN /\ (added.err = "none") = fits
           /\ added.err # "none" => added.cards = cards
           /\ added.err = "none" => added.cards = <<card>> \o cards

C17_Witness ==
    /\ lastCall.op = "Foundation.add"
    /\ lastResult = "ValueError"
    /\ turns >= 2
    /\ \E s \in Suit : Len(foundations[s]) = 2

\* C18: Pile.give(cards) accepts a run iff the run alternates colour and
\* falls by one rank card by card, and its bottom card is of the other
\* colour and one rank below the pile's top card, or the pile is empty and
\* the bottom card is a King; a rejected give leaves the pile unchanged, an
\* accepted one puts the run on top of shown.
C18_GiveAcceptsFittingRuns ==
    \A cards \in GiveInputs :
        LET p == tableau[0]
            given == Pile_give(p, cards)
            bot == cards[Len(cards)]
            is_run == \A i \in 1..(Len(cards) - 1) :
                        /\ color(cards[i]) # color(cards[i + 1])
                        /\ cards[i].rank = cards[i + 1].rank - 1
            fits == IF Len(p.shown) = 0 /\ Len(p.hidden) = 0
                    THEN bot.rank = KING
                    ELSE /\ Len(p.shown) > 0
                         /\ color(bot) # color(p.shown[1])
                         /\ bot.rank = p.shown[1].rank - 1
        IN /\ (given.err = "none") = (is_run /\ fits)
           /\ given.err # "none" => given.pile = p
           /\ given.err = "none" => given.pile = [p EXCEPT !.shown = cards \o @]

\* C19: Pile.take(count) raises and leaves the pile unchanged unless
\* 1 <= count <= len(shown); otherwise it returns the top count shown cards,
\* top first, and when shown is left empty and hidden is not, exactly the
\* first hidden card becomes the shown card (shown=[AC,2C],
\* hidden=[3C,4C,5C], count=2 returns [AC,2C] and leaves shown=[3C],
\* hidden=[4C,5C]).
C19_TakeRevealsOne ==
    /\ Pile_take(TestPile, 2) =
            [err |-> "none",
             pile |-> [shown |-> <<C3C>>, hidden |-> <<C4C, C5C>>],
             cards |-> <<AC, C2C>>]
    /\ \A count \in TakeInputs :
        LET p == tableau[0]
            taken == Pile_take(p, count)
            ok == 1 <= count /\ count <= Len(p.shown)
        IN /\ (taken.err = "none") = ok
           /\ ~ok => taken.pile = p
           /\ ok => /\ taken.cards = [i \in 1..count |-> p.shown[i]]
                     /\ taken.cards \o taken.pile.shown \o taken.pile.hidden
                            = p.shown \o p.hidden
                     /\ IF count = Len(p.shown) /\ Len(p.hidden) > 0
                        THEN /\ Len(taken.pile.shown) = 1
                             /\ Len(taken.pile.hidden) = Len(p.hidden) - 1
                        ELSE /\ Len(taken.pile.shown) = Len(p.shown) - count
                             /\ taken.pile.hidden = p.hidden

C19_Witness ==
    /\ lastCall.op = "Pile.take"
    /\ lastResult = "none"
    /\ turns = 1
    /\ tableau[0] = [shown |-> <<C3C>>, hidden |-> <<C4C, C5C>>]

\* C20: Pile.needs() returns no card for a pile with an Ace on top, the
\* four Kings for a pile with no shown card, and otherwise exactly the two
\* cards of the other colour one rank below the top card.
C20_NeedsByTopCard ==
    LET p == tableau[0]
        needed == Pile_needs(p)
        cards == {needed.cards[i] : i \in 1..Len(needed.cards)}
    IN /\ needed.err = "none"
       /\ Len(needed.cards) = Cardinality(cards)
       /\ IF Len(p.shown) = 0
          THEN cards = {C(KING, s) : s \in Suit}
          ELSE IF p.shown[1].rank = ACE
          THEN cards = {}
          ELSE cards = {C(p.shown[1].rank - 1, s) :
                            s \in {t \in Suit : suit_color(t) # color(p.shown[1])}}

\* What pile.take(count) followed by pile.give(the cards taken) leaves of
\* pile p, when the take returns and turns no hidden card over: TRUE when it
\* is p again.
TakeThenGive(p, count) ==
    LET taken == Pile_take(p, count)
    IN (taken.err = "none" /\ taken.pile.hidden = p.hidden)
            => Pile_give(taken.pile, taken.cards) = [err |-> "none", pile |-> p]

C22_HiddenUnderShown ==
    \A i \in DOMAIN tableau :
        Len(tableau[i].hidden) > 0 => Len(tableau[i].shown) > 0

\* The only shown card of a pile over a hidden card was moved away, and the
\* hidden card is shown now.
C22_Witness ==
    /\ lastCall.op = "take_turn"
    /\ lastCall.type = "MOVE_TABLEAU_STACK"
    /\ lastResult = "none"
    /\ 1 \in DOMAIN tableau
    /\ tableau[1] = [shown |-> <<C4D>>, hidden |-> <<>>]

\* C23: a successful MoveTableauStack(src, dst, k) moves exactly the top k
\* shown cards of pile src, in the same order, onto the top of pile dst's
\* shown cards; it is accepted only if k <= len(src.shown) and the k-th
\* shown card of src is in dst.needs(), and is otherwise refused with a
\* rules violation.
C23_StackMove ==
    \A sp \in DOMAIN tableau, dp \in DOMAIN tableau, k \in 1..MaxCount :
        sp # dp =>
            \A r \in {Game_take_turn(Self, 0,
                                     MoveTableauStackAction(sp, dp, k).action)} :
                LET src == tableau[sp]
                    dst == tableau[dp]
                    needed == Pile_needs(dst)
                    fits == /\ k <= Len(src.shown)
                            /\ needed.err = "none"
                            /\ CardIn(src.shown[k], needed.cards)
                IN IF fits
                   THEN /\ r.err = "none"
                        /\ r.g.tableau[dp].shown = SubSeq(src.shown, 1, k) \o dst.shown
                        /\ r.g.tableau[dp].hidden = dst.hidden
                        /\ r.g.tableau[sp].shown \o r.g.tableau[sp].hidden
                              = SubSeqFrom(src.shown, k + 1) \o src.hidden
                        /\ \A i \in DOMAIN tableau \ {sp, dp} :
                              r.g.tableau[i] = tableau[i]
                   ELSE r.err = "RulesError"

\* C24: Draw is a member of legal_moves() iff the stock is non-empty, or
\* the waste is non-empty and the pass limit is unlimited (0) or the current
\* pass is below the limit.
C24_DrawIsLegal ==
    \A lm \in {legal_moves(LiveNow)} :
        (lm.err = "none" /\ \E k \in 1..Len(lm.moves) : lm.moves[k] = DrawAction)
            <=> \/ Len(StockNow) > 0
                \/ /\ Len(WasteNow) > 0
                   /\ (stock_pass_limit = 0 \/ current_stock_pass < stock_pass_limit)

\* C25: constructing a MoveOne whose destination is the waste, or whose
\* source and destination are the same kind of location (tableau to tableau
\* included), and constructing a MoveTableauStack with source = dest, a
\* negative pile index or count < 1, raises; no such action is ever passed
\* to take_turn.
C25_ConstructorsReject ==
    /\ \A source \in LocationInputs, dest \in LocationInputs :
            (dest.type = "WASTE" \/ source.type = dest.type)
                => MoveOneAction(source, dest).err = "ValueError"
    /\ \A i \in StackInputs :
            (i.source_pile = i.dest_pile \/ i.source_pile < 0
                \/ i.dest_pile < 0 \/ i.count < 1)
                => MoveTableauStackAction(i.source_pile, i.dest_pile,
                                          i.count).err = "ValueError"
    /\ (lastCall.op = "take_turn" /\ lastCall.type = "MOVE_ONE")
            => (lastCall.dest # "WASTE" /\ lastCall.source # lastCall.dest)
    /\ lastCall.op \in {"MoveOneAction", "MoveTableauStackAction"}
            => (lastResult = "ValueError" /\ lastCall.type = "NONE")

\* A constructor raised after turns were taken.
C25_Witness ==
    /\ lastCall.op = "MoveOneAction"
    /\ lastResult = "ValueError"
    /\ turns >= 1

\* The contents of the State of test_accessible_stock_cards, case 'simple
\* case, draw 3', on the given stock pass.
TestState(pass) ==
    [tableau |-> <<>>, foundations |-> [s \in Suit |-> <<>>],
     stock |-> TestStock, waste |-> TestWaste, current_stock_pass |-> pass,
     pass_limit |-> 0, draw_count |-> TestDrawCount]

\* The cards of a list, as a set.
CardsOf(cards) == {cards[i] : i \in 1..Len(cards)}

\* C26: when the stock is non-empty and current_stock_pass > 1,
\* accessible_stock_cards contains every stock card that would become the
\* waste top after some number of consecutive Draw actions taken before the
\* next flip: the stock cards at positions k*draw_count + draw_count - 1,
\* clamped to the last stock card, the final stock card included.
C26_DrawBoundariesListed ==
    (Len(StockNow) > 0 /\ current_stock_pass > 1) =>
        \A r \in {accessible_stock_cards(LiveNow)} :
            /\ r.err = "none"
            /\ \A k \in 0..Len(StockNow) :
                k * draw_count < Len(StockNow) =>
                    StockNow[Smaller(k * draw_count + draw_count, Len(StockNow))]
                        \in CardsOf(r.cards)
            /\ StockNow[Len(StockNow)] \in CardsOf(r.cards)

\* C27: when current_stock_pass is 1, accessible_stock_cards contains no
\* card of the stock: it holds only the waste top, if any, and waste cards
\* at draw boundaries of the simulated flip (stock=[7C,8C,9C],
\* waste=[AC,2C,3C,5C,6C], draw=3 gives exactly [AC,3C]; the same position
\* on stock pass 2 gives [AC,9C,3C,7C]).
C27_FirstPassListsNoStock ==
    /\ accessible_stock_cards(TestState(1)) = [err |-> "none", cards |-> <<AC, C3C>>]
    /\ accessible_stock_cards(TestState(2)) =
            [err |-> "none", cards |-> <<AC, C(9, CLUBS), C3C, C(7, CLUBS)>>]
    /\ current_stock_pass = 1 =>
        \A r \in {accessible_stock_cards(LiveNow)} :
            /\ r.err = "none"
            /\ CardsOf(r.cards) \cap CardsOf(StockNow) = {}
            /\ CardsOf(r.cards) \subseteq CardsOf(WasteNow)
            /\ Len(WasteNow) > 0 => WasteNow[1] \in CardsOf(r.cards)

\* The cards that come to the top of the waste by one or more Draw actions
\* on stock st and waste w, draw count n, with at most flips turns of the
\* waste (the waste, reversed, becomes the stock).
RECURSIVE DrawTops(_, _, _, _)
DrawTops(st, w, n, flips) ==
    IF Len(st) > 0
    THEN LET m == Smaller(n, Len(st))
             w2 == Reverse(SubSeq(st, 1, m)) \o w
         IN {w2[1]} \cup DrawTops(SubSeqFrom(st, m + 1), w2, n, flips)
    ELSE IF Len(w) > 0 /\ flips > 0
    THEN DrawTops(Reverse(w), <<>>, n, flips - 1)
    ELSE {}

\* C28: every card in accessible_stock_cards of a reachable game state is
\* the current waste top or can be brought to the top of the waste from
\* that state by legal Draw actions alone that turn the waste over at most
\* once; no other card is listed.
C28_ListedCardsCanBeDrawn ==
    \A r \in {accessible_stock_cards(LiveNow)} :
        /\ r.err = "none"
        /\ CardsOf(r.cards) \subseteq
              (IF Len(WasteNow) > 0 THEN {WasteNow[1]} ELSE {})
              \cup DrawTops(StockNow, WasteNow, draw_count,
                            IF stock_pass_limit = 0
                               \/ current_stock_pass < stock_pass_limit
                            THEN 1 ELSE 0)

\* C29: has_useful_moves returns None (undetermined, neither true nor
\* false) whenever current_stock_pass is 1 and the pass limit is exactly 1,
\* whatever the stock, waste, tableau and foundations contain.
C29_UndeterminedOnOnlyPass ==
    (current_stock_pass = 1 /\ stock_pass_limit = 1) =>
        /\ has_useful_moves(LiveNow) = [err |-> "none", value |-> "None"]
        /\ lastCall.op = "has_useful_moves" => lastResult = "None"

\* has_useful_moves was called on the only pass with an empty stock, a
\* waste and a tableau with a legal move.
C29_Witness ==
    /\ lastCall.op = "has_useful_moves"
    /\ lastResult = "None"
    /\ current_stock_pass = 1
    /\ stock_pass_limit = 1
    /\ Len(StockNow) = 0
    /\ Len(WasteNow) > 0
    /\ legal_moves(LiveNow).err = "none"
    /\ Len(legal_moves(LiveNow).moves) > 0

\* C30: when the result is determinable and at least one legal move
\* exists, has_useful_moves returns False if no legal move is useful and
\* every accessible stock/waste card has no playable destination, and True
\* otherwise; in particular it returns True whenever some card of
\* accessible_stock_cards is needed by a foundation or by a tableau pile.
\* Stated here: it returns True or False, True when an accessible card has
\* a playable destination, and False only when none has.
C30_UsefulWhenAccessibleCardPlays ==
    LET v == LiveNow
        lm == legal_moves(v)
        acc == accessible_stock_cards(v)
        determinable == \/ current_stock_pass > 1
                        \/ (Len(StockNow) = 0 /\ stock_pass_limit # 1)
        plays == \E i \in 1..Len(acc.cards) :
                    \A d \in {playable_destinations(v, acc.cards[i])} :
                        d.err = "none" /\ Len(d.locs) > 0
    IN (determinable /\ lm.err = "none" /\ Len(lm.moves) > 0) =>
        \A h \in {has_useful_moves(v)} :
            /\ h.err = "none"
            /\ h.value \in {"True", "False"}
            /\ (acc.err = "none" /\ plays) => h.value = "True"
            /\ h.value = "False" => (acc.err = "none" /\ ~plays)

\* The dead-state result can be determined: the guard of has_useful_moves
\* lets the call through.
Determinable ==
    current_stock_pass > 1 \/ (Len(StockNow) = 0 /\ stock_pass_limit # 1)

\* C31: when the dead-state result is determinable and legal_moves() is
\* empty, has_useful_moves returns False, never True and never None.
C31_NoLegalMovesIsDead ==
    \A lm \in {legal_moves(LiveNow)} :
        (Determinable /\ lm.err = "none" /\ Len(lm.moves) = 0) =>
            /\ has_useful_moves(LiveNow) = [err |-> "none", value |-> "False"]
            /\ lastCall.op = "has_useful_moves" => lastResult = "False"

\* has_useful_moves was called on the second pass of two with an empty
\* stock, a waste and no legal move.
C31_Witness ==
    /\ lastCall.op = "has_useful_moves"
    /\ lastResult = "False"
    /\ current_stock_pass = 2
    /\ stock_pass_limit = 2
    /\ Len(StockNow) = 0
    /\ Len(WasteNow) > 0
    /\ legal_moves(LiveNow) = [err |-> "none", moves |-> <<>>]

\* The place of a move's kind in the list legal_moves builds.
MoveKind(m) ==
    IF m.type = "DRAW" THEN 1
    ELSE IF m.type = "MOVE_TABLEAU_STACK" THEN 5
    ELSE IF m.source.type = "WASTE"
    THEN (IF m.dest.type = "TABLEAU" THEN 2 ELSE 3)
    ELSE IF m.source.type = "TABLEAU" THEN 4
    ELSE 6

\* Move a may come before move b in the list of legal moves.
MayPrecede(a, b) ==
    /\ a # b
    /\ MoveKind(a) <= MoveKind(b)
    /\ MoveKind(a) = MoveKind(b) =>
        CASE MoveKind(a) = 1 -> FALSE
          [] MoveKind(a) = 2 -> a.dest.pile < b.dest.pile
          [] MoveKind(a) = 4 -> a.source.pile <= b.source.pile
          [] MoveKind(a) = 5 -> \/ a.source.pile < b.source.pile
                                \/ /\ a.source.pile = b.source.pile
                                   /\ a.dest.pile < b.dest.pile
          [] OTHER -> TRUE

\* C32: the list legal_moves() returns is in this order: Draw; waste top to
\* tableau piles by ascending pile index, then waste top to foundations;
\* tableau top to foundation by ascending pile index; tableau stack moves
\* ascending by (source index, dest index), at most one per ordered pair of
\* piles; then foundation top to tableau piles.
C32_LegalMovesOrder ==
    \A lm \in {legal_moves(LiveNow)} :
        lm.err = "none" =>
            \A i \in 1..Len(lm.moves), j \in 1..Len(lm.moves) :
                i < j => MayPrecede(lm.moves[i], lm.moves[j])

\* legal_moves() returned a Draw, a waste move, two stack moves of which the
\* one found first (onto pile 0) is listed last, and a foundation move.
C32_Witness ==
    /\ lastCall.op = "legal_moves"
    /\ lastResult = "none"
    /\ legal_moves(LiveNow).moves =
         <<DrawAction,
           MoveOneAction(WastePosition, FoundationPosition(CLUBS)).action,
           MoveTableauStackAction(0, 1, 1).action,
           MoveTableauStackAction(2, 0, 1).action,
           MoveOneAction(FoundationPosition(CLUBS), TableauPosition(0)).action>>

\* How many times card c is in the list cards.
Occurrences(c, cards) == Cardinality({i \in 1..Len(cards) : cards[i] = c})

\* C33: accessible_stock_cards lists no card twice when the stock and the
\* waste hold distinct cards, and the current waste top is listed exactly
\* once, also when the waste is long enough for the flip to be simulated.
C33_NoCardListedTwice ==
    \A r \in {accessible_stock_cards(LiveNow)} :
        /\ r.err = "none"
        /\ \A c \in CardsOf(r.cards) : Occurrences(c, r.cards) = 1
        /\ Len(WasteNow) > 0 => Occurrences(WasteNow[1], r.cards) = 1

\* C34: a card built from an int n in 1..13 (the rank of the held card plus
\* or minus one, as Rank.ACE + 1) is the card built from the Rank of value
\* n and the same suit, and equal to it; an int outside 1..13 (below Ace,
\* above King) builds no card; two cards are equal exactly if their ranks
\* and their suits are equal.
C34_CardsAreStructural ==
    /\ \A d \in {0 - 1, 1}, s \in Suit :
          \A n \in {HeldCard.rank + d} :
             \A r \in {Card_new(IntArg(n), s)} :
                IF n \in ACE..KING
                THEN /\ r.err = "none"
                     /\ r = Card_new(RankArg(n), s)
                     /\ Card_eq(r.card, Card_new(RankArg(n), s).card)
                ELSE r.err = "ValueError"
    /\ \A i \in 1..Len(decks[1]), j \in 1..Len(decks[1]) :
          Card_eq(decks[1][i], decks[1][j])
             <=> (decks[1][i].rank = decks[1][j].rank
                  /\ decks[1][i].suit = decks[1][j].suit)
    /\ lastCall.op = "Card(int)" =>
          IF lastResult = "none"
          THEN /\ decks[1][1].rank \in {decks[1][2].rank - 1, decks[1][2].rank + 1}
               /\ decks[1][1].rank \in ACE..KING
          ELSE HeldCard.rank \in {ACE, KING}
    /\ lastCall.op = "Card.__eq__" =>
          (lastResult = "True" <=> decks[1][1] = decks[1][2])

\* Card(Rank.ACE + 1, Suit.HEARTS) was built from an Ace held, as in
\* test_init, and is the card Card(Rank.TWO, Suit.HEARTS).
C34_Witness ==
    /\ lastCall.op = "Card(int)"
    /\ lastResult = "none"
    /\ Len(decks[1]) = 2
    /\ decks[1][2].rank = ACE
    /\ decks[1][1] = Card_new(RankArg(2), HEARTS).card

\* Every card the game holds, container after container: the shown and the
\* hidden cards of the piles, the foundations, the stock and the waste.
HeldCards ==
    Flatten([i \in 1..num_piles_of(tableau) |->
                tableau[i - 1].shown \o tableau[i - 1].hidden])
    \o Flatten([k \in 1..Cardinality(Suit) |-> foundations[k]])
    \o StockNow \o WasteNow

\* C35: after the deal and after any take_turn calls, failed ones included,
\* and undo calls, the cards held in the tableau piles, the foundations,
\* the stock and the waste are the cards of the starting deck, each as
\* often as the deck holds it.
C35_CardsConserved ==
    /\ Len(HeldCards) = Len(starting_deck)
    /\ \A c \in CardsOf(starting_deck) \cup CardsOf(HeldCards) :
          Occurrences(c, HeldCards) = Occurrences(c, starting_deck)

\* The counts with which a stack move from pile sp to pile dp is accepted
\* by take_turn in the current state.
LegalCounts(sp, dp) ==
    {n \in 1..Len(tableau[sp].shown) :
        \A a \in {MoveTableauStackAction(sp, dp, n)} :
            a.err = "none" /\ Game_take_turn(Self, 0, a.action).err = "none"}

\* C36: in every reachable game state the shown cards of every tableau pile
\* form a valid run (adjacent cards of opposite colours, the lower card one
\* rank above the card on top of it), and for every ordered pair of piles
\* at most one count gives a legal stack move.
C36_ShownCardsFormRuns ==
    /\ \A i \in 0..(num_piles_of(tableau) - 1) : ValidStack(tableau[i].shown)
    /\ \A sp \in 0..(num_piles_of(tableau) - 1), dp \in 0..(num_piles_of(tableau) - 1) :
          Cardinality(LegalCounts(sp, dp)) <= 1

\* A stack move was accepted and left a pile showing two cards, and a stack
\* move between two piles is legal now.
C36_Witness ==
    /\ lastCall.op = "take_turn"
    /\ lastCall.type = "MOVE_TABLEAU_STACK"
    /\ lastResult = "none"
    /\ \E i \in 0..(num_piles_of(tableau) - 1) : Len(tableau[i].shown) >= 2
    /\ \E sp \in 0..(num_piles_of(tableau) - 1), dp \in 0..(num_piles_of(tableau) - 1) :
          LegalCounts(sp, dp) # {}

\* C37: after any take_turn and undo calls, failed ones included, the live
\* tableau, foundations, stock, waste and pass counter are equal to what
\* the last snapshot in history holds.
C37_LiveIsLastSnapshot ==
    /\ Len(history) > 0
    /\ LiveNow = HistoryNow[Len(history)]

\* C38: when only Draws were taken since the deal (the waste, turned over,
\* is the dealt stock S and the stock is empty) and passes are not limited,
\* the next Draw turns the waste over into a stock that is S again: the
\* cards it then draws, in the order drawn, followed by the stock left are
\* S.
C38_CyclingPreservesOrder ==
    [][(/\ lastCall'.op = "take_turn"
        /\ lastCall'.type = "DRAW"
        /\ lastCall'.player = 0
        /\ Len(StockNow) = 0
        /\ Len(WasteNow) > 0
        /\ Reverse(WasteNow) = InitialDeal.stock
        /\ ~LimitReached)
        => (/\ lastResult' = "none"
            /\ Len(WasteNow') = Smaller(draw_count, Len(InitialDeal.stock))
            /\ Reverse(WasteNow') \o StockNow' = InitialDeal.stock)]_vars

\* The piles and the foundations a step changes.
PilesChanged == {i \in DOMAIN tableau : tableau'[i] # tableau[i]}
FoundationsChanged == {k \in Suit : foundations'[k] # foundations[k]}

\* The step is a take_turn call of the given action type that returned.
Turned(type) ==
    /\ lastCall'.op = "take_turn"
    /\ lastCall'.type = type
    /\ lastResult' = "none"

\* What a MoveOne that returned leaves alone: every container that is
\* neither its source nor its destination.
MoveOneFrame ==
    /\ StockNow' = StockNow
    /\ "WASTE" \notin {lastCall'.source, lastCall'.dest} => WasteNow' = WasteNow
    /\ Cardinality(PilesChanged)
          <= (IF "TABLEAU" \in {lastCall'.source, lastCall'.dest} THEN 1 ELSE 0)
    /\ Cardinality(FoundationsChanged)
          <= (IF "FOUNDATION" \in {lastCall'.source, lastCall'.dest} THEN 1 ELSE 0)

\* C39: a successful Draw changes only stock, waste and the pass counter; a
\* successful tableau stack move changes only two piles; a successful
\* MoveOne changes only its source and its destination container; the pass
\* counter changes only by +1 in a Draw that turns the waste over, or in an
\* undo.
C39_TurnsChangeOnlyTheirContainers ==
    [][/\ Turned("DRAW") => (tableau' = tableau /\ foundations' = foundations)
       /\ Turned("MOVE_TABLEAU_STACK") =>
            /\ Cardinality(PilesChanged) <= 2
            /\ foundations' = foundations
            /\ StockNow' = StockNow
            /\ WasteNow' = WasteNow
       /\ Turned("MOVE_ONE") => MoveOneFrame
       /\ current_stock_pass' # current_stock_pass =>
            \/ /\ Turned("DRAW")
               /\ Len(StockNow) = 0
               /\ current_stock_pass' = current_stock_pass + 1
            \/ lastCall'.op = "undo" /\ lastResult' = "none"]_vars

\* The last call was a Draw refused with a rules violation.
DrawRefused ==
    /\ lastCall.op = "take_turn"
    /\ lastCall.type = "DRAW"
    /\ lastResult = "RulesError"

\* The Draws that take the dealt stock to the waste: one pass.
DrawsPerPass == RangeLen(Len(InitialDeal.stock), draw_count)

\* C40: with a pass limit L > 0, a player who only draws is eventually
\* refused with a rules violation, after at most L passes through the stock
\* (the pass counter never goes beyond L, and no more Draws succeed than L
\* passes take); with L = 0 and a card in stock or waste, a Draw is never
\* refused.
C40_DrawsEndAtTheLimit ==
    /\ stock_pass_limit > 0 => <>DrawRefused
    /\ [](stock_pass_limit > 0 => current_stock_pass <= stock_pass_limit)
    /\ [](stock_pass_limit > 0 => turns <= stock_pass_limit * DrawsPerPass)
    /\ [][(/\ lastCall'.type = "DRAW"
            /\ stock_pass_limit = 0
            /\ Len(StockNow) + Len(WasteNow) > 0)
            => lastResult' # "RulesError"]_vars

====
